---- MODULE Spec2Model ----
(***************************************************************************)
(* Model of MPDSCrystalWorkChain (mpds_aiida/workflows/crystal.py): the    *)
(* outline                                                                 *)
(*   init_inputs, while_(has_calc_to_run)(if_(is_needed)(run_calc,         *)
(*                                             check_and_get_results))     *)
(* run by the AiiDA engine over the declared calculations of the options.  *)
(* A step is identified by its position 1..n in options['calculations'].   *)
(* Python's None / True / False of the YAML options are the strings        *)
(* "None" / "True" / "False"; a missing 'after' is step 0 and a missing    *)
(* 'exit_status' is NoStatus.                                              *)
(***************************************************************************)
EXTENDS Integers, Sequences, FiniteSets, TLC

\* ------------------------------------------------------------- bounds
\* most calculations one options file declares
MaxCalcs == 3
\* most calculations of one options file that carry an 'after' tag
MaxAfter == 1
\* number of distinct non-zero exit statuses a child workchain can end with
MaxExit == 2
\* the requests to the MPDS database are counted up to this number
MaxRequests == 3
\* most bands (stripes) of one band structure
MaxBands == 3

\* most processes the PROPERTIES subprocess starts, directly or not
MaxDescendants == 2

\* most entries of one DOS array
MaxDos == 2

\* most structures in one answer of the database
MaxStructs == 3

\* most structures in one answer to MPDSFleurStructureWorkChain
MaxFleurStructs == 2

\* most supercells (the pristine one and the displaced ones) of one run
MaxSupercells == 3
\* most calculations of one options file that differ from a plain 'crystal'
\* calculation in one respect (type, need flag, on_error block)
MaxVariants == 1

\* ------------------------------------------------------ program constants
\* priority step between two declared calculations (10 * i)
PriorityStep == 10
\* properties_export: a gap above this is unphysical (eV)
FatalGap == 50
\* properties_export: a gap above this is suspicious (eV)
WarnGap == 15
\* priority given to the optimize_structure calculation
OptimizationPriority == 1
\* initial value of ctx.running_calc
InitialRunningCalc == -1

None == "None"
NoStatus == -1
\* an optimize_structure value that is no key of options['calculations']
Undeclared == MaxCalcs + 1
ExitStatuses == 1..MaxExit
Tri == {"None", "True", "False"}
\* valid_keys of validate_inputs
ValidKeys == {"codes", "options", "basis_family", "default", "calculations"}

VARIABLES
    options,             \* the merged options (template + workchain_options)
    pc,                  \* the outline step the engine runs next
    exit_code,           \* the exit code of the workchain, "NONE" while it runs
    priority,            \* the dict `calculations` of init_inputs
    calculations,        \* ctx.calculations: the steps sorted by priority
    metadata,            \* ctx.metadata
    running_calc,        \* ctx.running_calc
    is_optimization,     \* ctx.is_optimization
    optimized_structure, \* ctx.optimized_structure: 0, or the step it came from
    proc,                \* ctx.<step>: the submitted child workchain of a step
    outputs,             \* the keys of the output_parameters namespace
    considered,          \* history: steps, in order, is_needed was run for
    skipped,             \* history: steps for which is_needed returned False
    handled,             \* history: steps whose check_and_get_results returned
    geo,                 \* get_geometry: its inputs, its requests and its result
    band,                \* properties.py: band stripes and what is computed of them
    run,                 \* properties_run_direct: the subprocess, kill, the result
    dos,                 \* properties_run_direct: the DOS arrays on their way to the report
    legacy,              \* mpds_aiida_workflows: the MPDSCrystalWorkchain of the old package
    sel,                 \* get_geometry: the structures of the answer and the one returned
    fgeo,                \* MPDSFleurStructureWorkChain.get_geometry: attempts and result
    fleur,               \* MPDSFleurWorkChain: its context, sub-workchains and outputs
    phonopy              \* PhonopyFleurWorkChain.run_forces: the loop over the supercells

\* the state of the code outside MPDSCrystalWorkChain's own methods
others == <<geo, band, run, dos, legacy, sel, fgeo, fleur, phonopy>>

vars == <<options, pc, exit_code, priority, calculations, metadata, running_calc,
          is_optimization, optimized_structure, proc, outputs, considered,
          skipped, handled, others>>

\* a step of the code that keeps its state in the variable named v leaves
\* the rest of `others` alone
OthersBut(v) ==
    /\ IF v = "geo" THEN TRUE ELSE UNCHANGED geo
    /\ IF v = "band" THEN TRUE ELSE UNCHANGED band
    /\ IF v = "run" THEN TRUE ELSE UNCHANGED run
    /\ IF v = "dos" THEN TRUE ELSE UNCHANGED dos
    /\ IF v = "legacy" THEN TRUE ELSE UNCHANGED legacy
    /\ IF v = "sel" THEN TRUE ELSE UNCHANGED sel
    /\ IF v = "fgeo" THEN TRUE ELSE UNCHANGED fgeo
    /\ IF v = "fleur" THEN TRUE ELSE UNCHANGED fleur
    /\ IF v = "phonopy" THEN TRUE ELSE UNCHANGED phonopy

Steps == 1..options.n

\* ------------------------------------------------------------- inputs
\* the 'after', 'finished_ok', 'exit_status' tags of a calculation without any
NoAfter == [calc |-> 0, finished_ok |-> None, exit_status |-> NoStatus]

\* the tags a calculation of an options file with n calculations may carry
\* (an exit_status only beside finished_ok: false, where is_needed reads it)
AfterTags(n) ==
    { t \in [calc : 1..n, finished_ok : Tri, exit_status : {NoStatus, 1}] :
        t.exit_status = NoStatus \/ t.finished_ok = "False" }

\* the after tags of n calculations, at most MaxAfter of them tagged
AfterMaps(n) ==
    UNION { { [c \in 1..n |-> IF c \in D THEN t[c] ELSE NoAfter] :
                t \in [D -> AfterTags(n)] } :
            D \in { S \in SUBSET (1..n) : Cardinality(S) <= MaxAfter } }

\* an options file with n calculations: options['options'] (optimize_structure,
\* need), the calculations' metadata (after), the keys of their parameters,
\* the keys of options['codes'], which calculations have an on_error block,
\* and the top-level keys
Options(n, optimize_structure, after, need, parameters, codes, on_error, keys) ==
    [n |-> n, optimize_structure |-> optimize_structure, after |-> after,
     need |-> need, parameters |-> parameters, codes |-> codes,
     on_error |-> on_error, keys |-> keys]

\* get_geometry has returned a structure
GeometryGiven ==
    [source |-> "given", api_key |-> FALSE,
     file |-> [cif |-> TRUE, error |-> FALSE, disordered |-> FALSE],
     requests |-> 0, answer |-> "none", asleep |-> FALSE, result |-> "structure"]

\* a gap as get_band_gap_info returns it: None, False or a number
GapNone == [kind |-> "None", value |-> 0]
GapFalse == [kind |-> "False", value |-> 0]
GapValue(v) == [kind |-> "value", value |-> v]

\* nothing was returned yet
NoGaps == [outcome |-> "unset", n |-> 0, indirect_gap |-> GapNone,
           direct_gap |-> GapNone]
NoExport == [outcome |-> "unset", indirect_gap |-> GapNone, direct_gap |-> GapNone,
             warned |-> FALSE, stripes |-> << >>, levels |-> {}]

\* band stripes of which nothing was computed yet
BandsOf(stripes) ==
    [stripes |-> stripes, stage |-> "is_conductor", conductor |-> FALSE,
     gaps |-> NoGaps, export |-> NoExport]

\* no band structure is looked at
NoBands == [BandsOf(<< >>) EXCEPT !.stage = "none"]

\* what properties_run_direct returns, before it returns
NotReturned == [result |-> "unset", work_folder |-> "unset", error |-> "unset"]

\* the PROPERTIES subprocess and its descendants after subprocess.Popen
Started ==
    [stage |-> "wait", process |-> "running", returncode |-> 0,
     descendants |-> [d \in 1..MaxDescendants |-> "unborn"],
     children |-> {}, timed_out |-> FALSE, files |-> FALSE, parsed |-> FALSE,
     raised |-> "None", returned |-> NotReturned]

\* properties_run_direct is not called
NoRun == [Started EXCEPT !.stage = "idle", !.process = "unborn"]

\* the DOS of fort.25 as parsed: dos_up, and dos_down when has_down (else
\* None), of the same length; `inside` are the positions whose energy
\* lies in the window of the report
ParsedDos(dos_up, has_down, dos_down, inside) ==
    [stage |-> "clip_up", raw_up |-> dos_up, raw_down |-> dos_down,
     has_down |-> has_down, dos_up |-> dos_up, dos_down |-> dos_down,
     inside |-> inside, report |-> << >>]

\* no DOS is looked at
NoDos == [ParsedDos(<< >>, FALSE, << >>, {}) EXCEPT !.stage = "none"]

\* the names under which the old MPDSCrystalWorkchain keeps its four
\* sub-workchains in the context
LegacyRuns == {"optimise", "frequency", "elastic", "properties"}

\* the old MPDSCrystalWorkchain before its first outline step: the label of
\* the options node is set or not, the database has structures or not,
\* crystal_parameters['geometry'] has the three keys or not
LegacyAt(label, structs, calc_keys) ==
    [pc |-> "init_inputs", label |-> label, structs |-> structs,
     calc_keys |-> calc_keys, awaited |-> "none",
     state |-> [r \in LegacyRuns |-> "none"],
     outputs |-> [r \in LegacyRuns |-> {}],
     submitted |-> << >>, results |-> {}]

\* the old workchain is not run
NoLegacy == [LegacyAt(FALSE, TRUE, TRUE) EXCEPT !.pc = "none"]

\* the structures compiled from the answer of the database; median_idx = 0:
\* none is chosen yet
Compiled(structs) == [structs |-> structs, stage |-> "select", median_idx |-> 0]

\* no answer is looked at
NoStructs == [Compiled(<< >>) EXCEPT !.stage = "none"]

\* MPDSFleurStructureWorkChain.get_geometry when it is called: MPDS_KEY is
\* set or not, the query has 'classes' or not
FleurGeometryAt(api_key, classes) ==
    [stage |-> "start", api_key |-> api_key, classes |-> classes, attempt |-> 0,
     requests |-> 0, answer |-> "none", structs |-> << >>, result |-> "pending",
     chosen |-> 0]

\* it is not called
NoFleurGeometry == [FleurGeometryAt(FALSE, FALSE) EXCEPT !.stage = "none"]

\* MPDSFleurWorkChain before init_inputs, with what the configuration
\* says: the flags need_phonons and optimize_structure, the names of the
\* optimizer and of the calculator, and whether it has the parameters of
\* the phonons
FleurAt(need_phonons, optimize, optimizer, calculator, phonon_params) ==
    [pc |-> "init_inputs",
     config |-> [need_phonons |-> need_phonons, optimize |-> optimize,
                 optimizer |-> optimizer, calculator |-> calculator,
                 phonon_params |-> phonon_params],
     need_phonons |-> FALSE, optimize |-> FALSE, optimizer_name |-> "unset",
     calculator_type |-> "unset", optimizer_wc |-> "unset",
     optimization |-> "none", phonons |-> "none", awaited |-> "none",
     outputs |-> {}, exit_status |-> -1]

\* the workchain is not run
NoFleur == [FleurAt(FALSE, FALSE, "BFGS", "scf", FALSE) EXCEPT !.pc = "none"]

\* run_forces when it is called: for each supercell whether its inp.xml
\* validates, the inputs magmoms_mapper (given or not) and test_magmoms_run
ForcesAt(supercells, magmoms_mapper, test_magmoms_run) ==
    [stage |-> "loop", supercells |-> supercells, magmoms_mapper |-> magmoms_mapper,
     test_magmoms_run |-> test_magmoms_run, done |-> 0, futures |-> {},
     in_context |-> {}, exit_status |-> 0]

\* run_forces is not called
NoForces == [ForcesAt(<< >>, FALSE, FALSE) EXCEPT !.stage = "none"]

\* of the code outside the workchain only the part named v is in use
IdleBut(v) ==
    /\ IF v = "band" THEN TRUE ELSE band = NoBands
    /\ IF v = "run" THEN TRUE ELSE run = NoRun
    /\ IF v = "dos" THEN TRUE ELSE dos = NoDos
    /\ IF v = "legacy" THEN TRUE ELSE legacy = NoLegacy
    /\ IF v = "sel" THEN TRUE ELSE sel = NoStructs
    /\ IF v = "fgeo" THEN TRUE ELSE fgeo = NoFleurGeometry
    /\ IF v = "fleur" THEN TRUE ELSE fleur = NoFleur
    /\ IF v = "phonopy" THEN TRUE ELSE phonopy = NoForces

\* the workchain at the point `start` of init_inputs, get_geometry in state g
ContextAt(start, g) ==
    /\ geo = g
    /\ pc = start
    /\ exit_code = "NONE"
    /\ priority = << >>
    /\ calculations = << >>
    /\ metadata = << >>
    /\ running_calc = InitialRunningCalc
    /\ is_optimization = "False"
    /\ optimized_structure = 0
    /\ proc = [c \in Steps |-> [state |-> "absent", exit_status |-> NoStatus,
                                 structure |-> "none", restart_params |-> FALSE,
                                 submits |-> 0]]
    /\ outputs = {}
    /\ considered = << >>
    /\ skipped = {}
    /\ handled = {}

\* the workchain when init_inputs has got its structure from get_geometry
InitContext ==
    /\ ContextAt("init_inputs", GeometryGiven)
    /\ IdleBut("none")

\* options files with the valid top-level keys whose calculations are all of
\* type 'crystal' and without on_error block, the code given; a need_<c> flag
\* that is true acts as a missing one and is left out
Init ==
    /\ \E n \in 1..MaxCalcs :
         \E o \in 0..n \cup {Undeclared}, a \in AfterMaps(n),
            nd \in [1..n -> {"absent", "False"}] :
            options = Options(n, o, a, nd, [c \in 1..n |-> {"crystal"}],
                              {"crystal"}, [c \in 1..n |-> FALSE], ValidKeys)
    /\ InitContext

\* the key sets of the 'parameters' of a calculation: one known type, an
\* unknown type, two types
ParameterKeys == {{"crystal"}, {"properties"}, {"other"}, {"crystal", "properties"}}

\* the top-level key sets of an options file: the valid one, one more key, one
\* key less (a key init_inputs reads before the sort, one it reads after it)
KeySets ==
    {ValidKeys, ValidKeys \cup {"extra"}}
      \cup { ValidKeys \ {k} : k \in {"codes", "default"} }

\* the functions on 1..n that are dflt but at MaxVariants places at most,
\* where they take a value of alt
Variants(n, dflt, alt) ==
    UNION { { [c \in 1..n |-> IF c \in D THEN f[c] ELSE dflt] : f \in [D -> alt] } :
            D \in { S \in SUBSET (1..n) : Cardinality(S) <= MaxVariants } }

\* options files without after tags: any top-level key set, the code given or
\* not, calculations of other types, with need flags and on_error blocks
InitInputs ==
    /\ \E n \in 1..MaxCalcs :
         \E o \in 0..n \cup {Undeclared},
            nd \in Variants(n, "absent", {"False"}),
            t \in Variants(n, {"crystal"}, ParameterKeys \ {{"crystal"}}),
            cd \in {{}, {"crystal"}},
            oe \in Variants(n, FALSE, {TRUE}),
            k \in KeySets :
            options = Options(n, o, [c \in 1..n |-> NoAfter], nd, t, cd, oe, k)
    /\ InitContext

\* options files in which any calculation may name any calculation in an
\* 'after' tag (without finished_ok and exit_status), all of type 'crystal',
\* the code given
InitOrder ==
    /\ \E n \in 1..MaxCalcs :
         \E o \in 0..n, a \in [1..n -> 0..n] :
            options = Options(n, o, [c \in 1..n |-> [NoAfter EXCEPT !.calc = a[c]]],
                              [c \in 1..n |-> "absent"],
                              [c \in 1..n |-> {"crystal"}], {"crystal"},
                              [c \in 1..n |-> FALSE], ValidKeys)
    /\ InitContext

\* --------------------------------------------------------- init_inputs
\* calculations = dict(zip(keys, [10 * i for i in range(len(keys))]))
BasePriority(n) == [c \in 1..n |-> PriorityStep * (c - 1)]

\* calculations[optimization] = 1
WithOptimization(prio, opt) ==
    IF opt = 0 THEN prio ELSE [prio EXCEPT ![opt] = OptimizationPriority]

\* for c in calculations: if after is not None:
\*     calculations[c] = calculations[after] + 1
\* (one pass in declaration order, updating the dict in place)
RECURSIVE AfterLoop(_, _, _)
AfterLoop(prio, opts, c) ==
    IF c > opts.n THEN prio
    ELSE LET after == opts.after[c].calc
         IN  AfterLoop(IF after # 0 THEN [prio EXCEPT ![c] = prio[after] + 1]
                                     ELSE prio,
                       opts, c + 1)

\* mutant of Insert: c goes before the elements of equal key (ties reversed)
RECURSIVE InsertBeforeEqual(_, _, _)
InsertBeforeEqual(seq, c, prio) ==
    IF seq = << >> THEN <<c>>
    ELSE IF prio[Head(seq)] < prio[c]
         THEN <<Head(seq)>> \o InsertBeforeEqual(Tail(seq), c, prio)
         ELSE <<c>> \o seq

\* one insertion of the stable sort: c goes behind every element whose key is
\* not greater than its own
RECURSIVE Insert(_, _, _)
Insert(seq, c, prio) ==
    IF seq = << >> THEN <<c>>
    ELSE IF prio[Head(seq)] <= prio[c]
         THEN <<Head(seq)>> \o Insert(Tail(seq), c, prio)
         ELSE <<c>> \o seq

\* sorted(calculations, key=calculations.get): stable, over the dict's keys in
\* declaration order
RECURSIVE SortedFrom(_, _, _, _)
SortedFrom(seq, c, n, prio) ==
    IF c > n THEN seq ELSE SortedFrom(Insert(seq, c, prio), c + 1, n, prio)

Sorted(prio, n) == SortedFrom(<< >>, 1, n, prio)

\* the dict `calculations` when init_inputs reaches the sort
FinalPriority(opts) ==
    AfterLoop(WithOptimization(BasePriority(opts.n), opts.optimize_structure),
              opts, 1)

\* c_metadata of one calculation: the need_<c> flag of the options, the after
\* tag, the calculation type and whether c is the optimize_structure step
StepMetadata(opts, c) ==
    [ keys |-> {"after", "calc_type", "optimize_structure"}
                 \cup (IF opts.need[c] # "absent" THEN {"need"} ELSE {}),
      need |-> opts.need[c],
      after |-> opts.after[c],
      calc_type |-> CHOOSE t \in opts.parameters[c] : TRUE,
      optimize_structure |->
          IF opts.optimize_structure = 0 THEN None
          ELSE IF opts.optimize_structure = c THEN "True" ELSE "False" ]

\* init_inputs gets as far as the sort: options['options'], ['codes'],
\* ['basis_family'] and ['calculations'] raise no KeyError (the exit code of
\* validate_inputs is not looked at) and optimize_structure is declared
ReachesSort(opts) ==
    /\ {"options", "codes", "basis_family", "calculations"} \subseteq opts.keys
    /\ opts.optimize_structure \in {0} \cup 1..opts.n

\* how init_inputs ends: the exit code it returns, "EXCEPTED" when it raises,
\* "NONE" when it returns nothing
InitInputsExit(opts) ==
    IF ~({"options", "codes", "basis_family", "calculations"} \subseteq opts.keys)
    THEN "EXCEPTED"
    ELSE IF opts.optimize_structure # 0 /\ opts.optimize_structure \notin 1..opts.n
    THEN "INPUT_ERROR"
    ELSE IF \E c \in 1..opts.n : Cardinality(opts.parameters[c]) # 1
    THEN "INPUT_ERROR"
    ELSE IF "default" \notin opts.keys
    THEN "EXCEPTED"
    ELSE "NONE"

Finish(code) ==
    /\ pc' = "finished"
    /\ exit_code' = code

init_inputs ==
    /\ pc = "init_inputs"
    /\ IF InitInputsExit(options) # "NONE"
       THEN /\ Finish(InitInputsExit(options))
            /\ IF ReachesSort(options)
               THEN /\ priority' = FinalPriority(options)
                    /\ calculations' = Sorted(FinalPriority(options), options.n)
               ELSE UNCHANGED <<priority, calculations>>
            /\ UNCHANGED <<metadata, running_calc>>
       ELSE /\ priority' = FinalPriority(options)
            /\ calculations' = Sorted(FinalPriority(options), options.n)
            /\ metadata' = [c \in Steps |-> StepMetadata(options, c)]
            /\ running_calc' = InitialRunningCalc
            /\ pc' = "has_calc_to_run"
            /\ UNCHANGED exit_code
    /\ UNCHANGED <<options, others, is_optimization, optimized_structure, proc, outputs,
                   considered, skipped, handled>>

\* the step under the cursor: ctx.calculations[ctx.running_calc]
Current == calculations[running_calc + 1]

\* the engine cannot go on: the outline step raised a Python exception
Except == Finish("EXCEPTED")

\* ----------------------------------------------------- has_calc_to_run
\* mutant of NoMoreCalcs: the loop condition never answers False
AlwaysMoreCalcs(cursor, n) == FALSE

\* if self.ctx.running_calc == len(self.ctx.calculations): return False
NoMoreCalcs(cursor, n) == cursor = n

has_calc_to_run ==
    /\ pc = "has_calc_to_run"
    /\ running_calc' = running_calc + 1
    /\ IF NoMoreCalcs(running_calc + 1, Len(calculations))
       THEN Finish("OK")
       ELSE /\ pc' = "is_needed"
            /\ UNCHANGED exit_code
    /\ UNCHANGED <<options, others, priority, calculations, metadata, is_optimization,
                   optimized_structure, proc, outputs, considered, skipped, handled>>

\* ------------------------------------------------------------ is_needed
\* calc.is_finished_ok of a process node
is_finished_ok(p) == p.state = "finished" /\ p.exit_status = 0

\* what is_needed does for step c: returns "True" or "False", or raises
\* (ctx.get(after['calc']) is None when that step has no process in the
\* context, and None has no attribute is_finished_ok)
IsNeededResult(c) ==
    LET is_calc_needed == IF "need" \in metadata[c].keys
                          THEN metadata[c].need ELSE "True"
        after == metadata[c].after
    IN  IF "after" \notin metadata[c].keys
        THEN "Raise"
        ELSE IF after.finished_ok # None
        THEN IF after.calc = 0 \/ proc[after.calc].state = "absent"
             THEN "Raise"
             ELSE IF after.finished_ok = "True" /\ is_finished_ok(proc[after.calc])
             THEN "True"
             ELSE IF /\ after.finished_ok = "False"
                     /\ after.exit_status # NoStatus
                     /\ proc[after.calc].exit_status = after.exit_status
             THEN "True"
             ELSE "False"
        ELSE is_calc_needed

is_needed ==
    /\ pc = "is_needed"
    /\ IF running_calc + 1 > Len(calculations)
       THEN \* ctx.calculations[ctx.running_calc]: list index out of range
            /\ Except
            /\ UNCHANGED <<considered, skipped, metadata>>
       ELSE /\ considered' = Append(considered, Current)
            /\ LET r == IsNeededResult(Current)
               IN  /\ IF r = "Raise" THEN Except
                      ELSE /\ pc' = IF r = "True" THEN "run_calc"
                                                 ELSE "has_calc_to_run"
                           /\ UNCHANGED exit_code
                   /\ skipped' = IF r = "False" THEN skipped \cup {Current}
                                                ELSE skipped
            /\ metadata' = [metadata EXCEPT ![Current].keys = @ \ {"need", "after"}]
    /\ UNCHANGED <<options, others, priority, calculations, running_calc, is_optimization,
                   optimized_structure, proc, outputs, handled>>

\* ------------------------------------------------------------- run_calc
\* mutant of StructureFor: every step is given the input structure
StructureAlwaysInput(optimization) == "input"

\* the structure _run_calc_crystal gives the child workchain
StructureFor(optimization) ==
    IF optimization = None \/ optimization = "True" THEN "input" ELSE "optimized"

\* mutant of RestartForwarded: the on_error inputs are never handed on
RestartDropped(c) == FALSE

\* if calculation in ctx.restart_inputs: inputs.restart_params = ...
\* (init_inputs fills ctx.restart_inputs[c] from the on_error block of c)
RestartForwarded(c) == options.on_error[c]

\* mutant of CodeGiven: the code is not looked for
CodeNotChecked(codes) == TRUE

\* 'crystal' in ctx.codes
CodeGiven(codes) == "crystal" \in codes

\* self.submit(BaseCrystalWorkChain, **inputs); to_context(calculation=...)
Submit(c, structure) ==
    proc' = [proc EXCEPT ![c] = [state |-> "running", exit_status |-> NoStatus,
                                 structure |-> structure,
                                 restart_params |-> RestartForwarded(c),
                                 submits |-> @.submits + 1]]

run_calc ==
    /\ pc = "run_calc"
    /\ LET c == Current
           calc_type == metadata[c].calc_type
           optimization == metadata[c].optimize_structure
       IN  IF "calc_type" \notin metadata[c].keys
           THEN /\ Except
                /\ UNCHANGED <<is_optimization, proc>>
           ELSE IF calc_type \notin {"crystal", "properties"}
           THEN /\ Finish("INPUT_ERROR")
                /\ UNCHANGED <<is_optimization, proc>>
           ELSE IF calc_type = "properties"
           THEN \* _run_calc_properties: raise NotImplemented
                /\ Except
                /\ UNCHANGED <<is_optimization, proc>>
           ELSE IF ~CodeGiven(options.codes)
           THEN /\ Finish("ERROR_INVALID_CODE")
                /\ UNCHANGED <<is_optimization, proc>>
           ELSE /\ is_optimization' = optimization
                /\ IF StructureFor(optimization) = "optimized"
                      /\ optimized_structure = 0
                   THEN \* ctx.optimized_structure: no such attribute
                        /\ Except
                        /\ UNCHANGED proc
                   ELSE /\ Submit(c, StructureFor(optimization))
                        /\ pc' = "check_and_get_results"
                        /\ UNCHANGED exit_code
    /\ metadata' = [metadata EXCEPT ![Current].keys =
                        IF "calc_type" \in @ /\ metadata[Current].calc_type = "crystal"
                           /\ CodeGiven(options.codes)
                        THEN @ \ {"calc_type", "optimize_structure"}
                        ELSE @ \ {"calc_type"}]
    /\ UNCHANGED <<options, others, priority, calculations, running_calc,
                   optimized_structure, outputs, considered, skipped, handled>>

\* the child workchain of step c ends, with exit status 0 or a failure status
ProcessFinishes ==
    \E c \in Steps, e \in {0} \cup ExitStatuses :
        /\ proc[c].state = "running"
        /\ proc' = [proc EXCEPT ![c].state = "finished", ![c].exit_status = e]
        /\ UNCHANGED <<options, others, pc, exit_code, priority, calculations, metadata,
                       running_calc, is_optimization, optimized_structure, outputs,
                       considered, skipped, handled>>

\* ------------------------------------------------ check_and_get_results
\* mutant of Awaited: the next outline step does not wait for the process
NotAwaited(c) == TRUE

\* to_context: the engine runs the next outline step once the awaited
\* process is terminated
Awaited(c) == proc[c].state = "finished"

\* mutant of OptimizationFailed: a failed optimization is not fatal
OptimizationNeverFatal(is_opt, ok_finish) == FALSE

\* mutant of OptimizationFailed: the failure of any step is fatal
AnyFailureFatal(is_opt, ok_finish) == ~ok_finish

\* if is_optimization: if not ok_finish: return ERROR_OPTIMIZATION_FAILED
OptimizationFailed(is_opt, ok_finish) == is_opt = "True" /\ ~ok_finish

\* mutant of RecordsStructure: every step that finished ok records its structure
RecordsAnyStructure(is_opt, ok_finish) == ok_finish

\* if is_optimization: ... ctx.optimized_structure = calc.outputs.output_structure
RecordsStructure(is_opt, ok_finish) == is_opt = "True" /\ ok_finish

\* mutant of PublishesOutput: the entry is made whatever the result
PublishesAlways(ok_finish) == TRUE

\* if ok_finish: self.out(f'output_parameters.{calculation}', ...)
PublishesOutput(ok_finish) == ok_finish

check_and_get_results ==
    /\ pc = "check_and_get_results"
    /\ Awaited(Current)
    /\ LET c == Current
           ok_finish == is_finished_ok(proc[c])
       IN  IF OptimizationFailed(is_optimization, ok_finish)
           THEN /\ Finish("ERROR_OPTIMIZATION_FAILED")
                /\ UNCHANGED <<optimized_structure, outputs, handled>>
           ELSE /\ optimized_structure' =
                       IF RecordsStructure(is_optimization, ok_finish)
                       THEN c ELSE optimized_structure
                /\ outputs' = IF PublishesOutput(ok_finish)
                              THEN outputs \cup {c} ELSE outputs
                /\ handled' = handled \cup {c}
                /\ pc' = "has_calc_to_run"
                /\ UNCHANGED exit_code
    /\ UNCHANGED <<options, others, priority, calculations, metadata, running_calc,
                   is_optimization, proc, considered, skipped>>

Next ==
    \/ init_inputs
    \/ has_calc_to_run
    \/ is_needed
    \/ run_calc
    \/ ProcessFinishes
    \/ check_and_get_results

Spec == Init /\ [][Next]_vars

\* the engine runs every outline step it can run, and every submitted child
\* workchain ends
FairSpec == Spec /\ WF_vars(Next)

\* the loop of the outline is entered once more on the context of a run that
\* ended without error
rerun ==
    /\ pc = "finished"
    /\ exit_code = "OK"
    /\ pc' = "has_calc_to_run"
    /\ exit_code' = "NONE"
    /\ UNCHANGED <<options, others, priority, calculations, metadata, running_calc,
                   is_optimization, optimized_structure, proc, outputs, considered,
                   skipped, handled>>

NextRerun ==
    \/ Next
    \/ rerun

SpecRerun == Init /\ [][NextRerun]_vars

\* ---------------------------------------------------------- get_geometry
\* the exit codes get_geometry of MPDSStructureWorkChain and of
\* CIFStructureWorkChain can return
GeometryExitCodes ==
    {"ERROR_NO_MPDS_API_KEY", "ERROR_API_ERROR", "ERROR_NO_HITS",
     "ERROR_SERVER_NOT_FOUND", "ERROR_NOT_A_CIF", "ERROR_DISORDERED_STRUCTURE",
     "ERROR_PARSING_CIF"}

\* what client.get_data can do: raise APIError with code 429 or another code,
\* raise ServerNotFoundError, or answer with lines that compile to no
\* structure or to some
Answers == {"429", "api_error", "server_not_found", "no_structs", "structs"}

\* the return value of MPDSStructureWorkChain.get_geometry after an answer
\* other than APIError 429
MPDSResult(answer) ==
    CASE answer = "api_error" -> "ERROR_API_ERROR"
      [] answer = "server_not_found" -> "ERROR_SERVER_NOT_FOUND"
      [] answer = "no_structs" -> "ERROR_NO_HITS"
      [] answer = "structs" -> "structure"

\* the return value of CIFStructureWorkChain.get_geometry
CIFResult(file) ==
    IF ~file.cif THEN "ERROR_NOT_A_CIF"
    ELSE IF file.error THEN "ERROR_PARSING_CIF"
    ELSE IF file.disordered THEN "ERROR_DISORDERED_STRUCTURE"
    ELSE "structure"

\* mutant of GeometryFailed: the return value is taken for a structure
GeometryNeverFailed(result) == FALSE

\* isinstance(self.ctx.structure, ExitCode)
GeometryFailed(result) == result \in GeometryExitCodes

\* init_inputs, from the return of get_geometry to the check of its value
GeometryReturns(result) ==
    IF GeometryFailed(result)
    THEN Finish(result)
    ELSE /\ pc' = "init_inputs"
         /\ UNCHANGED exit_code

\* the workchain leaves everything but pc, exit_code and geo as it is
ContextUntouched ==
    UNCHANGED <<options, priority, calculations, metadata, running_calc,
                is_optimization, optimized_structure, proc, outputs, considered,
                skipped, handled>>

\* MPDSStructureWorkChain.get_geometry, one call: without MPDS_KEY it
\* returns at once; otherwise it sends one request, and on APIError 429 it
\* goes to sleep before it calls itself
mpds_get_geometry ==
    /\ pc = "get_geometry"
    /\ geo.source = "mpds"
    /\ ~geo.asleep
    /\ IF ~geo.api_key
       THEN /\ geo' = [geo EXCEPT !.result = "ERROR_NO_MPDS_API_KEY"]
            /\ GeometryReturns("ERROR_NO_MPDS_API_KEY")
       ELSE \E answer \in Answers :
               LET sent == IF geo.requests < MaxRequests
                           THEN geo.requests + 1 ELSE geo.requests
               IN  IF answer = "429"
                   THEN /\ geo' = [geo EXCEPT !.requests = sent, !.answer = answer,
                                              !.asleep = TRUE]
                        /\ UNCHANGED <<pc, exit_code>>
                   ELSE /\ geo' = [geo EXCEPT !.requests = sent, !.answer = answer,
                                              !.result = MPDSResult(answer)]
                        /\ GeometryReturns(MPDSResult(answer))
    /\ OthersBut("geo")
    /\ ContextUntouched

\* time.sleep(...) is over: return self.get_geometry()
mpds_retry ==
    /\ pc = "get_geometry"
    /\ geo.asleep
    /\ geo' = [geo EXCEPT !.asleep = FALSE]
    /\ UNCHANGED <<pc, exit_code>>
    /\ OthersBut("geo")
    /\ ContextUntouched

\* CIFStructureWorkChain.get_geometry
cif_get_geometry ==
    /\ pc = "get_geometry"
    /\ geo.source = "cif"
    /\ geo' = [geo EXCEPT !.result = CIFResult(geo.file)]
    /\ GeometryReturns(CIFResult(geo.file))
    /\ OthersBut("geo")
    /\ ContextUntouched

\* a structure source before get_geometry is called: the MPDS database with
\* MPDS_KEY set or not, or a file that is a CIF or not, parses or not, is
\* disordered or not
GeometrySources ==
    { [GeometryGiven EXCEPT !.source = "mpds", !.api_key = k, !.result = "pending"] :
        k \in BOOLEAN }
    \cup { [GeometryGiven EXCEPT !.source = "cif", !.file = f, !.result = "pending"] :
            f \in [cif : BOOLEAN, error : BOOLEAN, disordered : BOOLEAN] }

\* a workchain about to call get_geometry; the options are valid, with
\* calculations of type 'crystal' and without tags
InitGeometry ==
    /\ \E n \in 1..MaxCalcs :
         \E o \in 0..n :
            options = Options(n, o, [c \in 1..n |-> NoAfter],
                              [c \in 1..n |-> "absent"],
                              [c \in 1..n |-> {"crystal"}], {"crystal"},
                              [c \in 1..n |-> FALSE], ValidKeys)
    /\ \E g \in GeometrySources : ContextAt("get_geometry", g)
    /\ IdleBut("geo")

NextGeometry ==
    \/ mpds_get_geometry
    \/ mpds_retry
    \/ cif_get_geometry
    \/ Next

SpecGeometry == InitGeometry /\ [][NextGeometry]_vars

\* the engine keeps running the workchain, whatever the database answers
FairGeometry == SpecGeometry /\ WF_vars(NextGeometry)

\* ----------------------------------------------------------- properties
\* the k-points of a band structure
KPoints == 1..2

\* band energies (eV, relative to the Fermi level) near the Fermi level
NearEnergies == -2..2

\* band energies whose differences lie at and around WarnGap and FatalGap
WideEnergies == {-1, 0, 14, 15, 49, 50}

max(s) == CHOOSE x \in {s[k] : k \in DOMAIN s} : \A k \in DOMAIN s : s[k] <= x
min(s) == CHOOSE x \in {s[k] : k \in DOMAIN s} : \A k \in DOMAIN s : x <= s[k]

\* mutant of Straddles: a stripe that touches zero counts as crossing it
StraddlesOrTouches(s) == min(s) <= 0 /\ max(s) >= 0

\* if bottom < 0 and top > 0
Straddles(s) == min(s) < 0 /\ max(s) > 0

\* is_conductor, the loop from stripe i on
RECURSIVE is_conductor_from(_, _)
is_conductor_from(band_stripes, i) ==
    IF i > Len(band_stripes) THEN FALSE
    ELSE IF Straddles(band_stripes[i]) THEN TRUE
    ELSE IF min(band_stripes[i]) > 0 THEN FALSE
    ELSE is_conductor_from(band_stripes, i + 1)

is_conductor(band_stripes) == is_conductor_from(band_stripes, 1)

\* np.min(band_stripes[n] - band_stripes[n - 1])
DirectGapOf(upper, lower) == min([k \in DOMAIN upper |-> upper[k] - lower[k]])

\* mutant of ReturnedGaps: equal gaps are returned as a pair
ReturnedGapsStrict(n, indirect_gap, direct_gap) ==
    IF direct_gap < indirect_gap
    THEN [outcome |-> "returned", n |-> n, indirect_gap |-> GapFalse,
          direct_gap |-> GapValue(direct_gap)]
    ELSE [outcome |-> "returned", n |-> n, indirect_gap |-> GapValue(indirect_gap),
          direct_gap |-> GapValue(direct_gap)]

\* the last lines of get_band_gap_info: what is returned for the two gaps
ReturnedGaps(n, indirect_gap, direct_gap) ==
    IF direct_gap <= indirect_gap
    THEN [outcome |-> "returned", n |-> n, indirect_gap |-> GapFalse,
          direct_gap |-> GapValue(direct_gap)]
    ELSE [outcome |-> "returned", n |-> n, indirect_gap |-> GapValue(indirect_gap),
          direct_gap |-> GapValue(direct_gap)]

\* get_band_gap_info, the loop from stripe n on (n counts from 1 here, the
\* loop of the code starts at the second stripe); n is kept with the result
RECURSIVE get_band_gap_info_from(_, _)
get_band_gap_info_from(band_stripes, n) ==
    IF n > Len(band_stripes)
    THEN [NoGaps EXCEPT !.outcome = "RuntimeError"]
    ELSE LET bottom == min(band_stripes[n])
             top == max(band_stripes[n - 1])
         IN  IF bottom > 0
             THEN IF top < bottom
                  THEN ReturnedGaps(n, bottom - top,
                                    DirectGapOf(band_stripes[n], band_stripes[n - 1]))
                  ELSE [NoGaps EXCEPT !.outcome = "returned", !.n = n]
             ELSE get_band_gap_info_from(band_stripes, n + 1)

get_band_gap_info(band_stripes) == get_band_gap_info_from(band_stripes, 2)

\* gap > limit in Python: None cannot be compared, False counts as 0
Comparable(gap) == gap.kind # "None"

\* mutant of Exceeds: a gap at the limit exceeds it
ExceedsOrEquals(gap, limit) == gap.kind = "value" /\ gap.value >= limit

Exceeds(gap, limit) == gap.kind = "value" /\ gap.value > limit

\* ase.units.Hartree in thousandths of an eV: the DOS of the model is
\* counted in thousandths after the conversion
Hartree == 27211

\* export only the range of the interest
E_MIN == -10
E_MAX == 20

\* SelectSeq with the test inlined: the stripes whose given k-point lies
\* in the window, in their order
RECURSIVE StripesWhere(_, _)
StripesWhere(stripes, k) ==
    IF stripes = << >> THEN << >>
    ELSE LET rest == StripesWhere(Tail(stripes), k)
         IN  IF Head(stripes)[k] > E_MIN /\ Head(stripes)[k] < E_MAX
             THEN <<Head(stripes)>> \o rest ELSE rest

\* stripes[ (stripes[:,0] > E_MIN) & (stripes[:,0] < E_MAX) ]
ExportedStripes(stripes) == StripesWhere(stripes, 1)

\* np.linspace(e_min, e_max, num=...), for a DOS with one value per eV
dos_energies(stripes) ==
    LET all == {stripes[i][k] : i \in DOMAIN stripes, k \in KPoints}
        e_min == CHOOSE x \in all : \A y \in all : x <= y
        e_max == CHOOSE x \in all : \A y \in all : y <= x
    IN  e_min..e_max

\* dos_energies[ (dos_energies > E_MIN) & (dos_energies < E_MAX) ]
ExportedLevels(energies) == {ene \in energies : E_MIN < ene /\ ene < E_MAX}

\* properties_export, as far as the gaps go: the gaps of a conductor are
\* None, None; get_band_gap_info may raise; the comparisons with 50 and 15
\* raise TypeError on None
properties_export(band_stripes) ==
    LET gaps == IF is_conductor(band_stripes)
                THEN [NoGaps EXCEPT !.outcome = "returned"]
                ELSE get_band_gap_info(band_stripes)
        direct_gap == gaps.direct_gap
        indirect_gap == gaps.indirect_gap
    IN  IF gaps.outcome = "RuntimeError"
        THEN [NoExport EXCEPT !.outcome = "RuntimeError"]
        ELSE IF ~Comparable(direct_gap)
        THEN [NoExport EXCEPT !.outcome = "TypeError"]
        ELSE IF Exceeds(direct_gap, FatalGap) \/ Exceeds(indirect_gap, FatalGap)
        THEN [NoExport EXCEPT !.outcome = "error", !.indirect_gap = indirect_gap,
                              !.direct_gap = direct_gap]
        ELSE [outcome |-> "report", indirect_gap |-> indirect_gap,
              direct_gap |-> direct_gap,
              warned |-> Exceeds(direct_gap, WarnGap) \/ Exceeds(indirect_gap, WarnGap),
              stripes |-> ExportedStripes(band_stripes),
              levels |-> ExportedLevels(dos_energies(band_stripes))]

\* the three functions are called, one after the other, on the same stripes
run_is_conductor ==
    /\ band.stage = "is_conductor"
    /\ band' = [band EXCEPT !.conductor = is_conductor(band.stripes),
                            !.stage = "get_band_gap_info"]
    /\ OthersBut("band")
    /\ UNCHANGED <<pc, exit_code>>
    /\ ContextUntouched

run_get_band_gap_info ==
    /\ band.stage = "get_band_gap_info"
    /\ band' = [band EXCEPT !.gaps = get_band_gap_info(band.stripes),
                            !.stage = "properties_export"]
    /\ OthersBut("band")
    /\ UNCHANGED <<pc, exit_code>>
    /\ ContextUntouched

run_properties_export ==
    /\ band.stage = "properties_export"
    /\ band' = [band EXCEPT !.export = properties_export(band.stripes),
                            !.stage = "done"]
    /\ OthersBut("band")
    /\ UNCHANGED <<pc, exit_code>>
    /\ ContextUntouched

\* the sequences of 1 to n elements of S
SeqUpTo(S, n) == UNION { [1..m -> S] : m \in 1..n }

\* the stripe with the energies a and b at the two k-points
Stripe(a, b) == [k \in KPoints |-> IF k = 1 THEN a ELSE b]

\* the conductor [[-1, 2], [3, 4]]
ExampleBands == { <<Stripe(-1, 2), Stripe(3, 4)>> }

\* band structures of up to MaxBands stripes near the Fermi level, and of
\* two stripes with wide gaps
InitBands ==
    /\ options = Options(1, 0, <<NoAfter>>, <<"absent">>, <<{"crystal"}>>,
                         {"crystal"}, <<FALSE>>, ValidKeys)
    /\ ContextAt("init_inputs", GeometryGiven)
    /\ \E stripes \in SeqUpTo([KPoints -> NearEnergies], MaxBands)
                       \cup [1..2 -> [KPoints -> WideEnergies]]
                       \cup ExampleBands :
          band = BandsOf(stripes)
    /\ IdleBut("band")

NextBands ==
    \/ run_is_conductor
    \/ run_get_band_gap_info
    \/ run_properties_export

SpecBands == InitBands /\ [][NextBands]_vars

\* ------------------------------------------------ properties_run_direct
\* the processes started by the subprocess, directly or not
Descendants == 1..MaxDescendants

\* properties_run_direct is between subprocess.Popen and its end
Running == run.stage \notin {"idle", "returned", "raised"}

\* what the rest of the workchain and of properties.py keeps
RunAlone ==
    /\ OthersBut("run")
    /\ UNCHANGED <<pc, exit_code>>
    /\ ContextUntouched

\* return result, work_folder, error
Returns(result, error) ==
    [result |-> result, work_folder |-> "work_folder", error |-> error]

\* the subprocess or one of its descendants starts a process
descendant_spawns(d) ==
    /\ Running
    /\ run.descendants[d] = "unborn"
    /\ run.process = "running" \/ \E e \in Descendants : run.descendants[e] = "running"
    /\ run' = [run EXCEPT !.descendants[d] = "running"]
    /\ RunAlone

\* a descendant ends by itself
descendant_exits(d) ==
    /\ Running
    /\ run.descendants[d] = "running"
    /\ run' = [run EXCEPT !.descendants[d] = "exited"]
    /\ RunAlone

\* the subprocess ends by itself, with a return code, having written the
\* output files or not, with BAND and DOSS in fort.25 or not
subprocess_exits ==
    /\ Running
    /\ run.process = "running"
    /\ \E returncode \in 0..1, files \in BOOLEAN, parsed \in BOOLEAN :
          /\ parsed => files
          /\ run' = [run EXCEPT !.process = "exited", !.returncode = returncode,
                                !.files = files, !.parsed = parsed]
    /\ RunAlone

\* p.wait(timeout=EXEC_TIMEOUT) raises TimeoutExpired: the subprocess was
\* still running when the time was over
wait_timeout ==
    /\ run.stage = "wait"
    /\ run.process = "running"
    /\ run' = [run EXCEPT !.stage = "kill", !.timed_out = TRUE]
    /\ RunAlone

\* what properties_run_direct returns after the subprocess ended in time
ReturnedAfterWait(returncode, files, parsed) ==
    IF returncode # 0 THEN Returns("None", "PROPERTIES failed")
    ELSE IF ~files THEN Returns("None", "PROPERTIES missing outputs")
    ELSE IF ~parsed THEN Returns("None", "PROPERTIES missing BANDS or DOS")
    ELSE Returns("bands_dos", "None")

\* p.wait returns in time; the return code, the files and the parsed data
\* are checked and the function returns
wait_returns ==
    /\ run.stage = "wait"
    /\ run.process = "exited"
    /\ run' = [run EXCEPT !.stage = "returned",
                          !.returned = ReturnedAfterWait(run.returncode, run.files,
                                                         run.parsed)]
    /\ RunAlone

\* kill: process.children(recursive=True) lists the descendants that run
\* now; when the subprocess has ended its children belong to it no more
kill_children ==
    /\ run.stage = "kill"
    /\ run' = [run EXCEPT !.stage = "kill_children",
                          !.children = IF run.process = "running"
                                       THEN {d \in Descendants :
                                                run.descendants[d] = "running"}
                                       ELSE {}]
    /\ RunAlone

\* kill: proc.kill() for one of the listed processes; for a process that is
\* gone psutil raises NoSuchProcess, unless its entry is still there
kill_proc(d) ==
    /\ run.stage = "kill_children"
    /\ d \in run.children
    /\ \/ /\ run.descendants[d] = "running"
          /\ run' = [run EXCEPT !.descendants[d] = "killed",
                                !.children = run.children \ {d}]
       \/ /\ run.descendants[d] # "running"
          /\ run' = [run EXCEPT !.children = run.children \ {d}]
       \/ /\ run.descendants[d] # "running"
          /\ run' = [run EXCEPT !.stage = "raised", !.raised = "NoSuchProcess"]
    /\ RunAlone

\* kill: process.kill() after the loop, then properties_run_direct returns
kill_process ==
    /\ run.stage = "kill_children"
    /\ run.children = {}
    /\ run' = [run EXCEPT !.stage = "returned",
                          !.process = IF run.process = "running" THEN "killed"
                                      ELSE run.process,
                          !.returned = Returns("None",
                                               "PROPERTIES killed as too time-consuming")]
    /\ RunAlone

InitRun ==
    /\ options = Options(1, 0, <<NoAfter>>, <<"absent">>, <<{"crystal"}>>,
                         {"crystal"}, <<FALSE>>, ValidKeys)
    /\ ContextAt("init_inputs", GeometryGiven)
    /\ IdleBut("run")
    /\ run = Started

NextRun ==
    \/ \E d \in Descendants : descendant_spawns(d)
    \/ \E d \in Descendants : descendant_exits(d)
    \/ subprocess_exits
    \/ wait_timeout
    \/ wait_returns
    \/ kill_children
    \/ \E d \in Descendants : kill_proc(d)
    \/ kill_process

SpecRun == InitRun /\ [][NextRun]_vars

\* -------------------------------------------------------------- the DOS
\* DOS entries as parsed from fort.25
DosValues == {-1, 0, 2}

\* mutant of Clip: only entries below -1 are set to 0
ClipBelowMinusOne(x) == IF x < -1 THEN 0 ELSE x

\* a[a < 0] = 0, for one entry
Clip(x) == IF x < 0 THEN 0 ELSE x

\* a[a < 0] = 0
Clipped(a) == [n \in DOMAIN a |-> Clip(a[n])]

\* a *= Hartree
Scaled(a) == [n \in DOMAIN a |-> a[n] * Hartree]

\* what the rest of the workchain and of properties.py keeps
DosAlone ==
    /\ OthersBut("dos")
    /\ UNCHANGED <<pc, exit_code>>
    /\ ContextUntouched

\* dos['dos_up'][ dos['dos_up'] < 0 ] = 0
clip_dos_up ==
    /\ dos.stage = "clip_up"
    /\ dos' = [dos EXCEPT !.dos_up = Clipped(dos.dos_up), !.stage = "scale_up"]
    /\ DosAlone

\* dos['dos_up'] *= Hartree
scale_dos_up ==
    /\ dos.stage = "scale_up"
    /\ dos' = [dos EXCEPT !.dos_up = Scaled(dos.dos_up),
                          !.stage = IF dos.has_down THEN "clip_down" ELSE "export"]
    /\ DosAlone

\* dos['dos_down'][ dos['dos_down'] < 0 ] = 0
clip_dos_down ==
    /\ dos.stage = "clip_down"
    /\ dos' = [dos EXCEPT !.dos_down = Clipped(dos.dos_down), !.stage = "scale_down"]
    /\ DosAlone

\* dos['dos_down'] *= Hartree; dos['dos_up'] += dos['dos_down']
scale_dos_down ==
    /\ dos.stage = "scale_down"
    /\ LET down == Scaled(dos.dos_down)
       IN  dos' = [dos EXCEPT !.dos_down = down,
                              !.dos_up = [n \in DOMAIN dos.dos_up |->
                                             dos.dos_up[n] + down[n]],
                              !.stage = "export"]
    /\ DosAlone

\* the values of a at the positions in `inside`, in their order
RECURSIVE Selected(_, _, _)
Selected(a, inside, n) ==
    IF n > Len(a) THEN << >>
    ELSE (IF n \in inside THEN <<a[n]>> ELSE << >>) \o Selected(a, inside, n + 1)

\* properties_export: the report's 'dos' are the entries of dos_up whose
\* energy lies in the window
export_dos ==
    /\ dos.stage = "export"
    /\ dos' = [dos EXCEPT !.report = Selected(dos.dos_up, dos.inside, 1),
                          !.stage = "done"]
    /\ DosAlone

InitDos ==
    /\ options = Options(1, 0, <<NoAfter>>, <<"absent">>, <<{"crystal"}>>,
                         {"crystal"}, <<FALSE>>, ValidKeys)
    /\ ContextAt("init_inputs", GeometryGiven)
    /\ IdleBut("dos")
    /\ \E len \in 1..MaxDos :
          \E dos_up \in [1..len -> DosValues], inside \in SUBSET (1..len) :
             \/ dos = ParsedDos(dos_up, FALSE, << >>, inside)
             \/ \E dos_down \in [1..len -> DosValues] :
                   dos = ParsedDos(dos_up, TRUE, dos_down, inside)

NextDos ==
    \/ clip_dos_up
    \/ scale_dos_up
    \/ clip_dos_down
    \/ scale_dos_down
    \/ export_dos

SpecDos == InitDos /\ [][NextDos]_vars

\* ------------------------------------ mpds_aiida_workflows/crystal.py
\* mutant of LegacyOutline: the elastic constants before the phonons
ElasticFirstOutline ==
    <<"init_inputs", "validate_inputs", "optimize_geometry",
      "calculate_elastic_constants", "calculate_phonons", "run_properties_calc",
      "retrieve_results">>

\* spec.outline(...)
LegacyOutline ==
    <<"init_inputs", "validate_inputs", "optimize_geometry", "calculate_phonons",
      "calculate_elastic_constants", "run_properties_calc", "retrieve_results">>

\* the outline step after `step`, "finished" after the last one
StepAfter(step) ==
    LET n == CHOOSE i \in DOMAIN LegacyOutline : LegacyOutline[i] = step
    IN  IF n = Len(LegacyOutline) THEN "finished" ELSE LegacyOutline[n + 1]

\* the outputs of a sub-workchain that finished ok: those the workchain
\* reads, and those its test expects of the properties run
OutputsOf(r) ==
    IF r = "properties" THEN {"output_dos", "output_bands"}
    ELSE {"output_parameters", "output_structure", "output_wavefunction"}

\* what the rest of the code keeps
LegacyAlone ==
    /\ OthersBut("legacy")
    /\ UNCHANGED <<pc, exit_code>>
    /\ ContextUntouched

\* an exception in an outline step
LegacyExcept == legacy' = [legacy EXCEPT !.pc = "excepted"]

\* if self.inputs.options.label: ... .format(self.inputs.label) -- there is
\* no input 'label', so a labelled options node ends the step
LabelRaises == legacy.label

\* self.submit(...); return self.to_context(r=...)
LegacySubmit(r) ==
    legacy' = [legacy EXCEPT !.state[r] = "running", !.awaited = r,
                             !.submitted = Append(legacy.submitted, r),
                             !.pc = StepAfter(legacy.pc)]

\* the engine runs a step when no awaited sub-workchain is running
LegacyStep(step) == legacy.pc = step /\ legacy.awaited = "none"

\* init_inputs with get_geometry: min() of no structures raises ValueError
legacy_init_inputs ==
    /\ LegacyStep("init_inputs")
    /\ IF legacy.structs
       THEN legacy' = [legacy EXCEPT !.pc = StepAfter(legacy.pc)]
       ELSE LegacyExcept
    /\ LegacyAlone

\* assert all([x in geometry_parameters for x in calc_keys])
legacy_validate_inputs ==
    /\ LegacyStep("validate_inputs")
    /\ IF legacy.calc_keys
       THEN legacy' = [legacy EXCEPT !.pc = StepAfter(legacy.pc)]
       ELSE LegacyExcept
    /\ LegacyAlone

optimize_geometry ==
    /\ LegacyStep("optimize_geometry")
    /\ IF LabelRaises THEN LegacyExcept ELSE LegacySubmit("optimise")
    /\ LegacyAlone

\* reads self.ctx.optimise.outputs.output_structure
calculate_phonons ==
    /\ LegacyStep("calculate_phonons")
    /\ IF LabelRaises \/ "output_structure" \notin legacy.outputs["optimise"]
       THEN LegacyExcept ELSE LegacySubmit("frequency")
    /\ LegacyAlone

\* reads self.ctx.optimise.outputs.output_structure
calculate_elastic_constants ==
    /\ LegacyStep("calculate_elastic_constants")
    /\ IF LabelRaises \/ "output_structure" \notin legacy.outputs["optimise"]
       THEN LegacyExcept ELSE LegacySubmit("elastic")
    /\ LegacyAlone

\* reads self.ctx.optimise.outputs.output_wavefunction
run_properties_calc ==
    /\ LegacyStep("run_properties_calc")
    /\ IF LabelRaises \/ "output_wavefunction" \notin legacy.outputs["optimise"]
       THEN LegacyExcept ELSE LegacySubmit("properties")
    /\ LegacyAlone

\* a submitted sub-workchain ends: ok with its outputs, or failed with
\* some of them
legacy_run_ends(r) ==
    /\ legacy.awaited = r
    /\ legacy.state[r] = "running"
    /\ \/ legacy' = [legacy EXCEPT !.state[r] = "finished_ok", !.awaited = "none",
                                    !.outputs[r] = OutputsOf(r)]
       \/ \E some \in SUBSET OutputsOf(r) :
             /\ some # OutputsOf(r)
             /\ legacy' = [legacy EXCEPT !.state[r] = "failed", !.awaited = "none",
                                         !.outputs[r] = some]
    /\ LegacyAlone

\* retrieve_results: the exposed outputs of the optimization and of the
\* properties run, and the output_parameters of the two other runs
retrieve_results ==
    /\ LegacyStep("retrieve_results")
    /\ IF /\ "output_parameters" \in legacy.outputs["frequency"]
          /\ "output_parameters" \in legacy.outputs["elastic"]
       THEN legacy' = [legacy EXCEPT
                          !.results = legacy.outputs["optimise"]
                                        \cup {"frequency_parameters", "elastic_parameters"}
                                        \cup legacy.outputs["properties"],
                          !.pc = StepAfter(legacy.pc)]
       ELSE LegacyExcept
    /\ LegacyAlone

InitLegacy ==
    /\ options = Options(1, 0, <<NoAfter>>, <<"absent">>, <<{"crystal"}>>,
                         {"crystal"}, <<FALSE>>, ValidKeys)
    /\ ContextAt("init_inputs", GeometryGiven)
    /\ IdleBut("legacy")
    /\ \E label \in BOOLEAN, structs \in BOOLEAN, calc_keys \in BOOLEAN :
          legacy = LegacyAt(label, structs, calc_keys)

NextLegacy ==
    \/ legacy_init_inputs
    \/ legacy_validate_inputs
    \/ optimize_geometry
    \/ calculate_phonons
    \/ calculate_elastic_constants
    \/ run_properties_calc
    \/ \E r \in LegacyRuns : legacy_run_ends(r)
    \/ retrieve_results

SpecLegacy == InitLegacy /\ [][NextLegacy]_vars

\* ------------------------------------------- get_geometry: the choice
\* the components of a cell (of get_cell().reshape(9), two are kept)
CellAxes == 1..2

\* a structure: its number of atoms and its cell
Structures == [atoms : 1..2, cell : [CellAxes -> 0..1]]

\* min([len(s) for s in structs])
minimal_struct(structs) ==
    CHOOSE n \in {structs[i].atoms : i \in DOMAIN structs} :
        \A i \in DOMAIN structs : n <= structs[i].atoms

\* the positions in a of the elements that pass the test, in their order
RECURSIVE MinimalFrom(_, _)
MinimalFrom(structs, i) ==
    IF i > Len(structs) THEN << >>
    ELSE (IF structs[i].atoms = minimal_struct(structs) THEN <<i>> ELSE << >>)
         \o MinimalFrom(structs, i + 1)

\* cells: the cells of the structures with the minimal number of atoms
cells(structs) ==
    LET kept == MinimalFrom(structs, 1)
    IN  [j \in DOMAIN kept |-> structs[kept[j]].cell]

\* the k-th smallest of the values v[1], ..., v[m]
Kth(v, k) ==
    CHOOSE x \in {v[j] : j \in DOMAIN v} :
        /\ Cardinality({j \in DOMAIN v : v[j] < x}) < k
        /\ Cardinality({j \in DOMAIN v : v[j] <= x}) >= k

\* twice np.median(cells, axis=0): the middle value, or the mean of the
\* two middle values, of each component
median_cell2(cs) ==
    [a \in CellAxes |->
        LET v == [j \in DOMAIN cs |-> cs[j][a]]
            m == Len(cs)
        IN  IF m % 2 = 1 THEN 2 * Kth(v, (m + 1) \div 2)
            ELSE Kth(v, m \div 2) + Kth(v, m \div 2 + 1)]

\* four times np.sum((cell - median_cell)**2): it orders the cells as the
\* distance does
Distance4(cell, median2) ==
    (2 * cell[1] - median2[1]) * (2 * cell[1] - median2[1])
    + (2 * cell[2] - median2[2]) * (2 * cell[2] - median2[2])

\* np.argmin(...) over cells, counted from 1: the first cell at the least
\* distance from the median cell
median_idx(structs) ==
    LET cs == cells(structs)
        m2 == median_cell2(cs)
    IN  CHOOSE j \in DOMAIN cs :
            /\ \A k \in DOMAIN cs : Distance4(cs[j], m2) <= Distance4(cs[k], m2)
            /\ \A k \in 1..(j - 1) : Distance4(cs[k], m2) > Distance4(cs[j], m2)

\* get_geometry returns structs[median_idx]: the position found in cells
\* is used in structs
select_structure ==
    /\ sel.stage = "select"
    /\ sel' = [sel EXCEPT !.median_idx = median_idx(sel.structs), !.stage = "done"]
    /\ OthersBut("sel")
    /\ UNCHANGED <<pc, exit_code>>
    /\ ContextUntouched

\* the sequences of 1 to n structures, one longer at a time
InitSelect ==
    /\ options = Options(1, 0, <<NoAfter>>, <<"absent">>, <<{"crystal"}>>,
                         {"crystal"}, <<FALSE>>, ValidKeys)
    /\ ContextAt("init_inputs", GeometryGiven)
    /\ IdleBut("sel")
    /\ \E structs \in SeqUpTo(Structures, MaxStructs) : sel = Compiled(structs)

NextSelect == select_structure

SpecSelect == InitSelect /\ [][NextSelect]_vars

\* ----------------------------- MPDSFleurStructureWorkChain.get_geometry
max_retries == 5

\* what the rest of the code keeps
FleurGeometryAlone ==
    /\ OthersBut("fgeo")
    /\ UNCHANGED <<pc, exit_code>>
    /\ ContextUntouched

\* the lines before the loop
fleur_get_geometry ==
    /\ fgeo.stage = "start"
    /\ IF ~fgeo.api_key
       THEN fgeo' = [fgeo EXCEPT !.stage = "done", !.result = "ERROR_NO_MPDS_API_KEY"]
       ELSE fgeo' = [fgeo EXCEPT !.stage = "loop", !.classes = TRUE]
    /\ FleurGeometryAlone

\* mutant of MayRetry: a rate-limited request is always tried again
AlwaysRetry(answer, attempt) == answer = "429"

\* if ex.code == 429 and attempt != max_retries
MayRetry(answer, attempt) == answer = "429" /\ attempt # max_retries

\* one pass of `while attempt < max_retries`: a request with its answer,
\* or the end of the loop
fleur_request ==
    /\ fgeo.stage = "loop"
    /\ IF fgeo.attempt < max_retries
       THEN \E answer \in Answers \ {"no_structs"} :
               LET attempt == fgeo.attempt + 1
                   sent == [fgeo EXCEPT !.attempt = attempt,
                                        !.requests = fgeo.requests + 1,
                                        !.answer = answer]
               IN  IF answer = "structs"
                   THEN \E structs \in {<< >>} \cup SeqUpTo(Structures, MaxFleurStructs) :
                           fgeo' = [sent EXCEPT !.stage = "compile", !.structs = structs]
                   ELSE IF MayRetry(answer, attempt)
                   THEN fgeo' = [sent EXCEPT !.stage = "asleep"]
                   ELSE IF answer = "server_not_found"
                   THEN fgeo' = [sent EXCEPT !.stage = "done",
                                             !.result = "ERROR_SERVER_NOT_FOUND"]
                   ELSE fgeo' = [sent EXCEPT !.stage = "done",
                                             !.result = "ERROR_API_ERROR"]
       ELSE fgeo' = [fgeo EXCEPT !.stage = "compile"]
    /\ FleurGeometryAlone

\* time.sleep(delay) is over: continue
fleur_retry ==
    /\ fgeo.stage = "asleep"
    /\ fgeo' = [fgeo EXCEPT !.stage = "loop"]
    /\ FleurGeometryAlone

\* the lines after the loop: they read `answer`, which is bound only by a
\* request that succeeded
fleur_compile ==
    /\ fgeo.stage = "compile"
    /\ IF fgeo.answer # "structs"
       THEN fgeo' = [fgeo EXCEPT !.stage = "done", !.result = "UnboundLocalError"]
       ELSE IF fgeo.structs = << >>
       THEN fgeo' = [fgeo EXCEPT !.stage = "done", !.result = "ERROR_NO_HITS"]
       ELSE fgeo' = [fgeo EXCEPT !.stage = "done", !.result = "structure",
                                 !.chosen = MinimalFrom(fgeo.structs, 1)
                                               [median_idx(fgeo.structs)]]
    /\ FleurGeometryAlone

InitFleurGeometry ==
    /\ options = Options(1, 0, <<NoAfter>>, <<"absent">>, <<{"crystal"}>>,
                         {"crystal"}, <<FALSE>>, ValidKeys)
    /\ ContextAt("init_inputs", GeometryGiven)
    /\ IdleBut("fgeo")
    /\ \E api_key \in BOOLEAN, classes \in BOOLEAN :
          fgeo = FleurGeometryAt(api_key, classes)

NextFleurGeometry ==
    \/ fleur_get_geometry
    \/ fleur_request
    \/ fleur_retry
    \/ fleur_compile

SpecFleurGeometry == InitFleurGeometry /\ [][NextFleurGeometry]_vars

\* ------------------------------------------------- MPDSFleurWorkChain
OPTIMIZERS ==
    [calculation_type \in {"scf", "relax"} |->
        [optimizer_type \in {"Adam", "RMSprop", "BFGS", "CG"} |->
            <<optimizer_type, calculation_type>>]]

\* names of optimizers and of calculators a configuration can give
OptimizerNames == {"Adam", "RMSprop", "BFGS", "CG", "Newton"}
CalculatorNames == {"scf", "relax", "band"}

\* get_optimizer: the class of the table, BFGS of the same calculation type
\* in the except branch; a KeyError raised there is not caught
get_optimizer(optimizer_type, calculation_type) ==
    IF /\ calculation_type \in DOMAIN OPTIMIZERS
       /\ optimizer_type \in DOMAIN OPTIMIZERS[calculation_type]
    THEN OPTIMIZERS[calculation_type][optimizer_type]
    ELSE IF calculation_type \in DOMAIN OPTIMIZERS
    THEN OPTIMIZERS[calculation_type]["BFGS"]
    ELSE <<"KeyError", calculation_type>>

\* what the rest of the code keeps
FleurAlone ==
    /\ OthersBut("fleur")
    /\ UNCHANGED <<pc, exit_code>>
    /\ ContextUntouched

\* the engine runs a step when no awaited sub-workchain is running
FleurStep(step) == fleur.pc = step /\ fleur.awaited = "none"

fleur_init_inputs ==
    /\ FleurStep("init_inputs")
    /\ fleur' = [fleur EXCEPT !.need_phonons = fleur.config.need_phonons,
                              !.optimize = fleur.config.optimize,
                              !.calculator_type = fleur.config.calculator,
                              !.optimizer_name = fleur.config.optimizer,
                              !.pc = "run_optimization"]
    /\ FleurAlone

\* run_optimization: without optimization it returns at once; else it asks
\* get_optimizer for the class and submits it
run_optimization ==
    /\ FleurStep("run_optimization")
    /\ IF ~fleur.optimize
       THEN fleur' = [fleur EXCEPT !.pc = "need_phonons"]
       ELSE LET optimizer_wc == get_optimizer(fleur.optimizer_name,
                                              fleur.calculator_type)
            IN  IF optimizer_wc[1] = "KeyError"
                THEN fleur' = [fleur EXCEPT !.optimizer_wc = "KeyError",
                                            !.pc = "excepted"]
                ELSE fleur' = [fleur EXCEPT !.optimizer_wc = optimizer_wc[1],
                                            !.optimization = "running",
                                            !.awaited = "optimization",
                                            !.pc = "need_phonons"]
    /\ FleurAlone

\* a submitted sub-workchain ends
fleur_run_ends ==
    /\ fleur.awaited # "none"
    /\ \E end \in {"finished_ok", "failed"} :
          fleur' = [fleur EXCEPT ![fleur.awaited] = end, !.awaited = "none"]
    /\ FleurAlone

\* the end of the outline: the workchain finishes with exit status 0
FleurFinished == [fleur EXCEPT !.pc = "finished", !.exit_status = 0]

\* if_(cls.need_phonons): return self.ctx.need_phonons and self.ctx.optimize
need_phonons ==
    /\ FleurStep("need_phonons")
    /\ IF fleur.need_phonons /\ fleur.optimize
       THEN fleur' = [fleur EXCEPT !.pc = "run_phonons"]
       ELSE fleur' = FleurFinished
    /\ FleurAlone

\* mutant of OptimizationOk: a failed optimization passes
OptimizationEnded(state) == state \in {"finished_ok", "failed"}

\* opt_workchain.is_finished_ok
OptimizationOk(state) == state = "finished_ok"

\* run_phonons: after a failed optimization it returns; else it reads the
\* parameters of the phonons from the configuration and submits
run_phonons ==
    /\ FleurStep("run_phonons")
    /\ IF ~OptimizationOk(fleur.optimization)
       THEN fleur' = [fleur EXCEPT !.pc = "end"]
       ELSE IF ~fleur.config.phonon_params
       THEN fleur' = [fleur EXCEPT !.pc = "excepted"]
       ELSE fleur' = [fleur EXCEPT !.phonons = "running", !.awaited = "phonons",
                                   !.pc = "end"]
    /\ FleurAlone

\* nothing is left in the outline
fleur_outline_ends ==
    /\ FleurStep("end")
    /\ fleur' = FleurFinished
    /\ FleurAlone

InitFleur ==
    /\ options = Options(1, 0, <<NoAfter>>, <<"absent">>, <<{"crystal"}>>,
                         {"crystal"}, <<FALSE>>, ValidKeys)
    /\ ContextAt("init_inputs", GeometryGiven)
    /\ IdleBut("fleur")
    /\ \E flag \in BOOLEAN, optimize \in BOOLEAN, optimizer \in OptimizerNames,
          calculator \in CalculatorNames, phonon_params \in BOOLEAN :
          fleur = FleurAt(flag, optimize, optimizer, calculator, phonon_params)

NextFleur ==
    \/ fleur_init_inputs
    \/ run_optimization
    \/ fleur_run_ends
    \/ need_phonons
    \/ run_phonons
    \/ fleur_outline_ends

SpecFleur == InitFleur /\ [][NextFleur]_vars

\* ---------------------------------------- PhonopyFleurWorkChain.run_forces
ERROR_XML_VALIDATION_FAILED == 403
TEST_MAGMOMS_RUN == 404

\* what the rest of the code keeps
ForcesAlone ==
    /\ OthersBut("phonopy")
    /\ UNCHANGED <<pc, exit_code>>
    /\ ContextUntouched

\* error = fleur_setup.validate(); if error: ...
Validates(supercells, n) == supercells[n]

\* one pass of the loop over supercells_dict: validate, return 403 on an
\* error, return 404 in a test run, else submit FleurForcesWorkChain
run_forces_pass ==
    /\ phonopy.stage = "loop"
    /\ phonopy.done < Len(phonopy.supercells)
    /\ LET number == phonopy.done + 1
       IN  IF ~Validates(phonopy.supercells, number)
           THEN phonopy' = [phonopy EXCEPT !.stage = "returned",
                                           !.exit_status = ERROR_XML_VALIDATION_FAILED]
           ELSE IF phonopy.test_magmoms_run
           THEN phonopy' = [phonopy EXCEPT !.stage = "returned",
                                           !.exit_status = TEST_MAGMOMS_RUN]
           ELSE phonopy' = [phonopy EXCEPT !.done = number,
                                           !.futures = phonopy.futures \cup {number}]
    /\ ForcesAlone

\* after the loop: return ToContext(calc_forces_<number>=future, ...)
run_forces_to_context ==
    /\ phonopy.stage = "loop"
    /\ phonopy.done = Len(phonopy.supercells)
    /\ phonopy' = [phonopy EXCEPT !.stage = "returned",
                                  !.in_context = phonopy.futures]
    /\ ForcesAlone

InitForces ==
    /\ options = Options(1, 0, <<NoAfter>>, <<"absent">>, <<{"crystal"}>>,
                         {"crystal"}, <<FALSE>>, ValidKeys)
    /\ ContextAt("init_inputs", GeometryGiven)
    /\ IdleBut("phonopy")
    /\ \E supercells \in SeqUpTo(BOOLEAN, MaxSupercells),
          magmoms_mapper \in BOOLEAN, test_magmoms_run \in BOOLEAN :
          phonopy = ForcesAt(supercells, magmoms_mapper, test_magmoms_run)

NextForces ==
    \/ run_forces_pass
    \/ run_forces_to_context

SpecForces == InitForces /\ [][NextForces]_vars

\* the same workchain over the options files of InitInputs
SpecInputs == InitInputs /\ [][Next]_vars

\* the same workchain over the options files of InitOrder
SpecOrder == InitOrder /\ [][Next]_vars

\* ------------------------------------------------------------ step status
\* the place of step c in the execution order
Position(c) == CHOOSE i \in 1..Len(calculations) : calculations[i] = c

Considered == { considered[i] : i \in 1..Len(considered) }

Submitted(c) == proc[c].state # "absent"

\* the status of a step in the words of the specification
Status(c) ==
    IF c \in skipped THEN "SKIPPED"
    ELSE IF proc[c].state = "absent" THEN "PENDING"
    ELSE IF proc[c].state = "running" THEN "RUNNING"
    ELSE IF proc[c].exit_status = 0 THEN "SUCCEEDED"
    ELSE "FAILED"

Terminal(c) == Status(c) \in {"SUCCEEDED", "FAILED", "SKIPPED"}

\* the designated optimization step, 0 when there is none
Optimization == options.optimize_structure

\* init_inputs has built the execution order
Ordered == calculations # << >>

\* of the outputs exposed from BaseCrystalWorkChain (output_parameters
\* excluded), the one this workchain itself reads
ExposedCrystalOutputs == {"output_structure"}

\* the top-level names in the outputs of the workchain: the namespace
\* output_parameters once it has an entry, and the exposed outputs of the
\* optimization step, which out_many passes on where the optimized structure
\* is recorded; nothing else is ever put out
Results ==
    (IF outputs # {} THEN {"output_parameters"} ELSE {})
      \cup (IF optimized_structure # 0 THEN ExposedCrystalOutputs ELSE {})

\* ------------------------------------------------------------------ C1
\* C1: ctx.calculations lists every declared step exactly once, in
\* non-decreasing final priority, steps of equal priority in declaration
\* order, and the loop considers the steps in exactly that order (the steps
\* considered so far are a prefix of ctx.calculations).
C1_ExecutionOrder ==
    Ordered =>
      /\ Len(calculations) = options.n
      /\ \A c \in Steps : \E i \in 1..Len(calculations) : calculations[i] = c
      /\ \A i, j \in 1..Len(calculations) :
            i < j => \/ priority[calculations[i]] < priority[calculations[j]]
                     \/ /\ priority[calculations[i]] = priority[calculations[j]]
                        /\ calculations[i] < calculations[j]
      /\ Len(considered) <= Len(calculations)
      /\ \A i \in 1..Len(considered) : considered[i] = calculations[i]

\* three steps were considered, two of them of equal priority and one placed
\* before a step declared earlier
C1_Witness ==
    /\ Len(considered) = 3
    /\ \E c, d \in Steps : c # d /\ priority[c] = priority[d]
    /\ \E i, j \in 1..Len(calculations) : i < j /\ calculations[i] > calculations[j]

\* ------------------------------------------------------------------ C2
\* C2: once the optimize_structure step was run and did not finish ok, the
\* workchain ends with ERROR_OPTIMIZATION_FAILED (the only thing left to run
\* is the result handling that returns it), and every step later in the
\* execution order is never considered, submitted or given an output.
OptimizationRunFailed ==
    /\ Optimization \in Steps
    /\ proc[Optimization].state = "finished"
    /\ proc[Optimization].exit_status # 0

C2_OptimizationFailureAborts ==
    OptimizationRunFailed =>
      /\ \/ pc = "check_and_get_results" /\ Current = Optimization
                                          /\ exit_code = "NONE"
         \/ pc = "finished" /\ exit_code = "ERROR_OPTIMIZATION_FAILED"
      /\ \A d \in Steps :
            Position(d) > Position(Optimization) =>
               /\ d \notin Considered
               /\ Status(d) = "PENDING"
               /\ d \notin outputs

\* the run ended with the error and two later steps are left pending
C2_Witness ==
    /\ OptimizationRunFailed
    /\ exit_code = "ERROR_OPTIMIZATION_FAILED"
    /\ Cardinality({d \in Steps : Position(d) > Position(Optimization)}) >= 2

\* ------------------------------------------------------------------ C3
\* C3: a step d with after: X (another step) and finished_ok: true, once
\* is_needed has run for it, is submitted (or at run_calc, about to be) exactly
\* when X's status is SUCCEEDED, and in every other case it is SKIPPED and not
\* submitted.
C3_AfterFinishedOk ==
    \A d \in Steps :
       LET after == options.after[d]
       IN  (after.calc \notin {0, d} /\ after.finished_ok = "True"
              /\ d \in Considered) =>
              IF Status(after.calc) = "SUCCEEDED"
              THEN /\ d \notin skipped
                   /\ Submitted(d) \/ (pc = "run_calc" /\ Current = d)
              ELSE /\ d \in skipped
                   /\ ~Submitted(d)

\* ------------------------------------------------------------------ C4
\* C4: a step whose need_<step> flag is false is never submitted, with or
\* without an after tag.
C4_NeedFlagSkips ==
    \A c \in Steps : options.need[c] = "False" => ~Submitted(c)

\* ------------------------------------------------------------------ C5
\* C5: when optimize_structure names a declared step, that step is first in
\* the execution order.
C5_OptimizationFirst ==
    (Ordered /\ Optimization \in Steps) => calculations[1] = Optimization

\* ------------------------------------------------------------------ C6
\* C6: when check_and_get_results handles a step that is not the optimization
\* and did not finish ok, the workchain does not end: no exit code is set, the
\* step gets no entry in the outputs, and control goes back to the loop head
\* with the cursor on the failed step, so that the next step in the execution
\* order is the next one considered; a failed step never has an output entry.
HandlesFailure ==
    /\ pc = "check_and_get_results"
    /\ pc' # pc
    /\ Current # Optimization
    /\ ~is_finished_ok(proc[Current])

C6_FailureIsNotFatalStep ==
    HandlesFailure =>
      /\ exit_code' = "NONE"
      /\ pc' = "has_calc_to_run"
      /\ running_calc' = running_calc
      /\ outputs' = outputs
      /\ Current \in handled'

C6_LoopContinues ==
    \A i \in 1..Len(calculations) :
       LET c == calculations[i]
       IN  (c \in handled /\ Status(c) = "FAILED") =>
              /\ c \notin outputs
              /\ exit_code # "ERROR_OPTIMIZATION_FAILED"
              /\ (running_calc + 1 > i /\ i < Len(calculations)) =>
                    \/ pc = "is_needed" /\ Current = calculations[i + 1]
                    \/ /\ Len(considered) > i
                       /\ considered[i + 1] = calculations[i + 1]
              /\ exit_code = "OK" => Len(considered) = Len(calculations)

C6_NonFatalFailure ==
    [][C6_FailureIsNotFatalStep]_vars /\ []C6_LoopContinues

\* a step failed, was handled, and the step after it has been submitted
C6_Witness ==
    \E i \in 1..Len(calculations) :
       /\ i < Len(calculations)
       /\ calculations[i] \in handled
       /\ Status(calculations[i]) = "FAILED"
       /\ Submitted(calculations[i + 1])

\* ------------------------------------------------------------------ C7
\* C7: at most one submitted calculation is unfinished, and the cursor reaches
\* a step (its needed check, submission and result handling) only when every
\* step before it in the execution order is SUCCEEDED, FAILED or SKIPPED.
C7_OneAtATime ==
    /\ Cardinality({c \in Steps : proc[c].state = "running"}) <= 1
    /\ \A i, j \in 1..Len(calculations) :
          (i < j /\ (j <= running_calc + 1 \/ calculations[j] \in Considered
                     \/ Submitted(calculations[j])
                     \/ calculations[j] \in handled))
             => Terminal(calculations[i])

\* the third step runs after a succeeded and a failed one
C7_Witness ==
    /\ Len(calculations) = 3
    /\ proc[calculations[3]].state = "running"
    /\ {Status(calculations[1]), Status(calculations[2])} = {"SUCCEEDED", "FAILED"}

\* ------------------------------------------------------------------ C8
\* C8: a submitted step was given the input structure when it is the
\* optimization step or there is no optimize_structure, and the optimized
\* structure otherwise; and then the optimized structure had been recorded
\* from the output of the optimization step, which finished ok.
C8_StructureHandoff ==
    \A c \in Steps :
       Submitted(c) =>
          /\ proc[c].structure =
                IF Optimization = 0 \/ Optimization = c THEN "input" ELSE "optimized"
          /\ proc[c].structure = "optimized" =>
                /\ optimized_structure = Optimization
                /\ Status(Optimization) = "SUCCEEDED"
                /\ Optimization \in handled

\* one step ran on the optimized structure and one on the input structure
C8_Witness ==
    /\ \E c \in Steps : proc[c].structure = "optimized"
    /\ \E c \in Steps : proc[c].structure = "input"

\* ------------------------------------------------------------------ C9
\* C9: ctx.optimized_structure changes only once, from unset, in
\* check_and_get_results of the optimize_structure step after that step
\* finished ok; no other step changes it.
C9_Step ==
    optimized_structure' # optimized_structure =>
       /\ optimized_structure = 0
       /\ pc = "check_and_get_results"
       /\ Current = Optimization
       /\ is_finished_ok(proc[Optimization])
       /\ optimized_structure' = Optimization

C9_WrittenOnce == [][C9_Step]_vars

\* the structure is recorded and two later steps were handled, one of them ok
C9_Witness ==
    /\ optimized_structure # 0
    /\ Cardinality(handled \ {optimized_structure}) >= 2
    /\ \E c \in handled : c # optimized_structure /\ Status(c) = "SUCCEEDED"

\* ----------------------------------------------------------------- C10
\* C10: output_parameters has an entry for step s exactly when s was
\* submitted, finished ok and its result has been handled; skipped and failed
\* steps have none.
C10_Outputs ==
    \A s \in Steps :
       s \in outputs <=> /\ Submitted(s)
                         /\ s \in handled
                         /\ is_finished_ok(proc[s])

\* a run with an entry, a handled failed step and a skipped step
C10_Witness ==
    /\ \E s \in Steps : s \in outputs
    /\ \E s \in Steps : s \in handled /\ Status(s) = "FAILED"
    /\ \E s \in Steps : Status(s) = "SKIPPED"

\* ----------------------------------------------------------------- C11
\* C11: a step d with after: X (another step) and finished_ok set, considered
\* while X has no process in the context (X was skipped or has not run), is
\* marked SKIPPED and the run goes on: it does not end in an exception.
C11_MissingDependencySkips ==
    \A d \in Steps :
       LET after == options.after[d]
       IN  (after.calc \notin {0, d} /\ after.finished_ok # None
              /\ d \in Considered /\ proc[after.calc].state = "absent") =>
              /\ d \in skipped
              /\ exit_code # "EXCEPTED"

\* ----------------------------------------------------------------- C12
\* C12: a step d without need flag, with after: X and finished_ok set, that
\* was considered after X ended, is submitted (or at run_calc, about to be)
\* exactly when finished_ok equals X.is_finished_ok and the exit_status, when
\* set, equals X's exit status; otherwise it is skipped and not submitted.
RequirementsMatch(after) ==
    /\ (after.finished_ok = "True") = is_finished_ok(proc[after.calc])
    /\ after.exit_status # NoStatus =>
          proc[after.calc].exit_status = after.exit_status

C12_AfterRequirements ==
    \A d \in Steps :
       LET after == options.after[d]
       IN  (after.calc \notin {0, d} /\ after.finished_ok # None
              /\ options.need[d] = "absent"
              /\ d \in Considered /\ proc[after.calc].state = "finished"
              /\ Position(after.calc) < Position(d)) =>
              IF RequirementsMatch(after)
              THEN /\ d \notin skipped
                   /\ Submitted(d) \/ (pc = "run_calc" /\ Current = d)
              ELSE /\ d \in skipped
                   /\ ~Submitted(d)

\* ----------------------------------------------------------------- C13
\* C13 (as stated): a missing code is fatal for the optimization step only, so
\* a run that ends with ERROR_INVALID_CODE ended at the optimization step.
C13_InvalidCodeFatalForOptimizationOnly ==
    exit_code = "ERROR_INVALID_CODE" => Current = Optimization

\* C13 (amended): when run_calc reaches a step of type crystal and 'crystal' is
\* not in ctx.codes, the run ends there with ERROR_INVALID_CODE, whether or
\* not the step is the optimization step: no step of the run is ever
\* submitted, and no step behind it in the execution order is considered.
C13_InvalidCodeStep ==
    (/\ pc = "run_calc"
     /\ metadata[Current].calc_type = "crystal"
     /\ "crystal" \notin options.codes) =>
        /\ pc' = "finished"
        /\ exit_code' = "ERROR_INVALID_CODE"
        /\ proc' = proc

C13_InvalidCodeEnds ==
    /\ "crystal" \notin options.codes => \A c \in Steps : ~Submitted(c)
    /\ exit_code = "ERROR_INVALID_CODE" =>
          /\ pc = "finished"
          /\ "crystal" \notin options.codes
          /\ Len(considered) = running_calc + 1
          /\ considered[Len(considered)] = Current
          /\ \A d \in Steps : Position(d) > running_calc + 1 =>
                d \notin Considered /\ Status(d) = "PENDING"

C13_InvalidCodeAborts ==
    [][C13_InvalidCodeStep]_vars /\ []C13_InvalidCodeEnds

\* the run ended with ERROR_INVALID_CODE at a step that is not the
\* optimization, behind a skipped step and before a step left pending
C13_Witness ==
    /\ exit_code = "ERROR_INVALID_CODE"
    /\ Current # Optimization
    /\ skipped # {}
    /\ running_calc + 1 < Len(calculations)

\* ----------------------------------------------------------------- C14
\* C14: when the top-level keys of the options are not exactly the valid
\* keys, init_inputs ends the run with INPUT_ERROR and no calculation is
\* submitted.
C14_KeyMismatchIsInputError ==
    (options.keys # ValidKeys /\ pc # "init_inputs") =>
       /\ pc = "finished"
       /\ exit_code = "INPUT_ERROR"
       /\ \A c \in Steps : ~Submitted(c)

\* ----------------------------------------------------------------- C15
\* C15: in a run that ended with INPUT_ERROR no calculation was submitted.
C15_InputErrorBeforeSubmission ==
    exit_code = "INPUT_ERROR" => \A c \in Steps : ~Submitted(c)

\* ----------------------------------------------------------------- C16
\* C16: when the 'after' relations of the options form no cycle, every step c
\* with after: X has, once init_inputs has run, the priority of X plus one and
\* a later place than X in the execution order.
RECURSIVE FollowAfter(_, _)
FollowAfter(c, k) ==
    IF c = 0 \/ k = 0 THEN c ELSE FollowAfter(options.after[c].calc, k - 1)

Acyclic == \A c \in Steps : FollowAfter(c, options.n) = 0

C16_AfterPriority ==
    (Ordered /\ Acyclic) =>
       \A c \in Steps :
          LET X == options.after[c].calc
          IN  X # 0 => /\ priority[c] = priority[X] + 1
                       /\ Position(X) < Position(c)

\* ----------------------------------------------------------------- C17
\* C17: every step is submitted at most once in a run, whatever its outcome
\* (a handled step, failed or not, was submitted exactly once), and the child
\* workchain is given restart_params exactly when the step has an on_error
\* block.
C17_SubmittedOnce ==
    \A c \in Steps :
       /\ proc[c].submits <= 1
       /\ Submitted(c) <=> proc[c].submits = 1
       /\ c \in handled => proc[c].submits = 1
       /\ Submitted(c) => proc[c].restart_params = options.on_error[c]

\* the run went through three steps; one with an on_error block failed, was
\* handled and was not submitted again
C17_Witness ==
    /\ exit_code = "OK"
    /\ Cardinality(handled) = 3
    /\ \E c \in handled : /\ options.on_error[c]
                          /\ Status(c) = "FAILED"
                          /\ proc[c].restart_params
                          /\ proc[c].submits = 1

\* ----------------------------------------------------------------- C20
\* C20: a run that ended without error and in which every declared
\* calculation finished ok has output_parameters, frequency_parameters,
\* elastic_parameters, output_dos and output_bands among its outputs.
C20_TestOutputs ==
    (exit_code = "OK" /\ \A c \in Steps : Status(c) = "SUCCEEDED") =>
       {"output_parameters", "frequency_parameters", "elastic_parameters",
        "output_dos", "output_bands"} \subseteq Results

\* ----------------------------------------------------------------- C18
\* C18: when the engine keeps running and every submitted child ends, every
\* run comes to an end; the cursor moves by exactly one in has_calc_to_run and
\* nowhere else; and once the cursor is past the last step the run has ended
\* without error, while a run that ended in another way ended before that.
C18_CursorStep ==
    IF pc = "has_calc_to_run"
    THEN running_calc' = running_calc + 1
    ELSE running_calc' = running_calc

C18_EndsDone ==
    /\ (Ordered /\ running_calc >= Len(calculations)) =>
          /\ pc = "finished"
          /\ exit_code = "OK"
          /\ running_calc = Len(calculations)
    /\ pc = "finished" =>
          \/ exit_code = "OK" /\ Ordered /\ running_calc = Len(calculations)
          \/ /\ exit_code \in {"INPUT_ERROR", "ERROR_INVALID_CODE",
                               "ERROR_OPTIMIZATION_FAILED", "EXCEPTED"}
             /\ running_calc < Len(calculations) \/ ~Ordered

C18_Terminates ==
    /\ [][C18_CursorStep]_vars
    /\ []C18_EndsDone
    /\ <>(pc = "finished")

\* a run of three steps ended without error, the cursor past the last step
C18_Witness ==
    /\ pc = "finished"
    /\ exit_code = "OK"
    /\ running_calc = 3
    /\ Cardinality(handled) >= 2

\* ----------------------------------------------------------------- C19
\* C19: once has_calc_to_run has answered False (the cursor is past the last
\* step), entering the loop again changes nothing: has_calc_to_run answers
\* False again, so is_needed and run_calc are not reached, and the run does
\* not end in an exception.
C19_RerunIsNoOp ==
    (Ordered /\ running_calc >= Len(calculations)) =>
       /\ pc \in {"finished", "has_calc_to_run"}
       /\ exit_code \in {"OK", "NONE"}

\* ----------------------------------------------------------------- C21
\* C21: when get_geometry returns one of its exit codes, the run ends in
\* init_inputs with that exit code, nothing of the options is read and no
\* calculation is ever submitted; each exit code goes with its cause; and
\* without MPDS_KEY the result is ERROR_NO_MPDS_API_KEY and no request was
\* sent.
GeometryCause ==
    CASE geo.result = "ERROR_NO_MPDS_API_KEY" -> geo.source = "mpds" /\ ~geo.api_key
      [] geo.result = "ERROR_API_ERROR" -> geo.answer = "api_error"
      [] geo.result = "ERROR_NO_HITS" -> geo.answer = "no_structs"
      [] geo.result = "ERROR_SERVER_NOT_FOUND" -> geo.answer = "server_not_found"
      [] geo.result = "ERROR_NOT_A_CIF" -> geo.source = "cif" /\ ~geo.file.cif
      [] geo.result = "ERROR_PARSING_CIF" -> geo.source = "cif" /\ geo.file.error
      [] geo.result = "ERROR_DISORDERED_STRUCTURE" ->
            geo.source = "cif" /\ geo.file.disordered
      [] OTHER -> TRUE

C21_GeometryErrorEndsRun ==
    /\ geo.result \in GeometryExitCodes =>
          /\ pc = "finished"
          /\ exit_code = geo.result
          /\ ~Ordered
          /\ \A c \in Steps : ~Submitted(c)
          /\ GeometryCause
    /\ (geo.source = "mpds" /\ ~geo.api_key /\ pc # "get_geometry") =>
          /\ geo.result = "ERROR_NO_MPDS_API_KEY"
          /\ geo.requests = 0
    /\ exit_code \in GeometryExitCodes => exit_code = geo.result

\* the run ended with ERROR_NO_HITS at the request that followed a 429
C21_Witness ==
    /\ pc = "finished"
    /\ exit_code = "ERROR_NO_HITS"
    /\ geo.requests = 2

\* ----------------------------------------------------------------- C22
\* C22: get_geometry of MPDSStructureWorkChain comes to an end whatever the
\* database answers: after a fixed number of 429 answers it gives up and
\* returns (ERROR_API_ERROR), so that it always returns in the end.
C22_RetryBounded == <>(geo.result # "pending")

\* ------------------------------------------------------------ C24 .. C27
\* what was computed of the band structure so far
ConductorKnown == band.stage \in {"get_band_gap_info", "properties_export", "done"}
GapsKnown == band.stage \in {"properties_export", "done"}
ExportKnown == band.stage = "done"

\* stripe i lies above zero / crosses zero
Above(i) == \A k \in KPoints : band.stripes[i][k] > 0
Crosses(i) ==
    /\ \E k \in KPoints : band.stripes[i][k] < 0
    /\ \E k \in KPoints : band.stripes[i][k] > 0

\* the first stripe above zero, 0 without one
FirstAbove ==
    IF \E i \in DOMAIN band.stripes : Above(i)
    THEN CHOOSE i \in DOMAIN band.stripes :
             Above(i) /\ \A j \in 1..(i - 1) : ~Above(j)
    ELSE 0

\* C24: is_conductor is true if and only if, going through the bands in
\* order, a band with min < 0 and max > 0 comes before any band with
\* min > 0; the bands [[-1, 2], [3, 4]] are a conductor
C24_ConductorIffCrossingFirst ==
    ConductorKnown =>
        /\ band.conductor =
              (\E i \in DOMAIN band.stripes :
                   Crosses(i) /\ \A j \in 1..(i - 1) : ~Above(j))
        /\ band.stripes \in ExampleBands => band.conductor

\* the example [[-1, 2], [3, 4]] was classified, and as a conductor
C24_Witness ==
    /\ ConductorKnown
    /\ band.stripes \in ExampleBands
    /\ band.conductor

\* C25: for bands that are no conductor and have a band above zero,
\* get_band_gap_info takes n as the first band with min > 0, top =
\* max(band[n-1]), bottom = min(band[n]); with top < bottom the indirect
\* gap is bottom - top and the direct gap the least difference of the two
\* bands over the k-points, with top >= bottom both gaps are None
C25_GapOfFirstBandAbove ==
    (GapsKnown /\ ~band.conductor /\ FirstAbove # 0) =>
        /\ band.gaps.outcome = "returned"
        /\ band.gaps.n = FirstAbove
        /\ FirstAbove > 1 =>
              LET upper == band.stripes[FirstAbove]
                  lower == band.stripes[FirstAbove - 1]
                  bottom == min(upper)
                  top == max(lower)
                  least == CHOOSE d \in {upper[k] - lower[k] : k \in KPoints} :
                               \A k \in KPoints : d <= upper[k] - lower[k]
              IN  IF top < bottom
                  THEN /\ band.gaps.direct_gap = GapValue(least)
                       /\ band.gaps.indirect_gap \in {GapValue(bottom - top), GapFalse}
                  ELSE /\ band.gaps.direct_gap = GapNone
                       /\ band.gaps.indirect_gap = GapNone

\* C26: for a conductor, and when get_band_gap_info returns None for both
\* gaps, properties_export returns a report, with None for both gaps
C26_NullGapsReported ==
    (ExportKnown /\ (band.conductor
                      \/ (band.gaps.outcome = "returned"
                          /\ band.gaps.direct_gap = GapNone))) =>
        /\ band.export.outcome = "report"
        /\ band.export.direct_gap = GapNone
        /\ band.export.indirect_gap = GapNone

\* C27: get_band_gap_info raises 'no bands above zero found' if and only
\* if no band of the input has min > 0
C27_RaisesIffNoBandAbove ==
    GapsKnown => ((band.gaps.outcome = "RuntimeError") <=> (FirstAbove = 0))

\* ------------------------------------------------------------------- C30
\* the gaps properties_export got as numbers
ComputedGaps ==
    IF band.conductor \/ band.gaps.outcome # "returned" THEN {}
    ELSE {g.value : g \in {x \in {band.gaps.direct_gap, band.gaps.indirect_gap} :
                               x.kind = "value"}}

\* C30: properties_export returns a fatal error and no report if and only
\* if a computed gap is above 50 eV; with a computed gap above 15 eV and
\* none above 50 eV it returns the report and warns
C30_FatalAboveFiftyOnly ==
    ExportKnown =>
        /\ (band.export.outcome = "error") <=> (\E g \in ComputedGaps : g > 50)
        /\ ((\E g \in ComputedGaps : g > 15) /\ (\A g \in ComputedGaps : g <= 50)) =>
              (band.export.outcome = "report" /\ band.export.warned)
        /\ (band.export.outcome = "report" /\ band.export.warned) =>
              (\E g \in ComputedGaps : g > 15)

\* a gap of 51 eV was exported as a fatal error
C30_Witness ==
    /\ ExportKnown
    /\ 51 \in ComputedGaps
    /\ band.export.outcome = "error"

\* ------------------------------------------------------------ C28, C29
\* properties_run_direct is over, by a return or by an exception
RunOver == run.stage \in {"returned", "raised"}

\* C28: properties_run_direct returns (result, work_folder, None) or
\* (None, work_folder, error), never a result with an error; after a
\* timeout, a non-zero return code, a missing output file or missing BAND
\* or DOSS data the result is None and the error is set; the work folder
\* is returned in every case
C28_ResultOrError ==
    RunOver =>
        /\ run.stage = "returned"
        /\ run.returned.work_folder = "work_folder"
        /\ (run.returned.result = "None") <=> (run.returned.error # "None")
        /\ (run.timed_out \/ run.returncode # 0 \/ ~run.files \/ ~run.parsed) =>
              run.returned.result = "None"

\* C29: after a timeout properties_run_direct returns 'PROPERTIES killed
\* as too time-consuming', and when it returns neither the subprocess nor
\* any of its descendants runs, whatever was spawned or ended meanwhile
C29_AllKilledBeforeReturn ==
    (RunOver /\ run.timed_out) =>
        /\ run.stage = "returned"
        /\ run.returned.error = "PROPERTIES killed as too time-consuming"
        /\ run.process # "running"
        /\ \A d \in Descendants : run.descendants[d] # "running"

\* ------------------------------------------------------------ C31, C32
\* C31: every band energy in 'stripes' and every DOS level in 'levels' of
\* the report of properties_export lies inside the window (-10 eV, 20 eV)
C31_ReportInsideWindow ==
    (ExportKnown /\ band.export.outcome = "report") =>
        /\ \A i \in DOMAIN band.export.stripes : \A k \in KPoints :
              -10 < band.export.stripes[i][k] /\ band.export.stripes[i][k] < 20
        /\ \A ene \in band.export.levels : -10 < ene /\ ene < 20

\* the two gaps of the stripes n and n - 1, computed from the stripes
IndirectOf(n) == min(band.stripes[n]) - max(band.stripes[n - 1])
DirectOf(n) ==
    CHOOSE d \in {band.stripes[n][k] - band.stripes[n - 1][k] : k \in KPoints} :
        \A k \in KPoints : d <= band.stripes[n][k] - band.stripes[n - 1][k]

\* C32: get_band_gap_info reports (False, direct_gap) when direct_gap <=
\* indirect_gap and (indirect_gap, direct_gap) otherwise; direct_gap >=
\* indirect_gap always holds, so False is reported exactly when the two
\* gaps are equal
C32_FalseIffGapsEqual ==
    (GapsKnown /\ band.gaps.outcome = "returned" /\ band.gaps.direct_gap # GapNone) =>
        LET n == band.gaps.n IN
        /\ DirectOf(n) >= IndirectOf(n)
        /\ band.gaps.direct_gap = GapValue(DirectOf(n))
        /\ (band.gaps.indirect_gap = GapFalse) <=> (DirectOf(n) = IndirectOf(n))
        /\ band.gaps.indirect_gap # GapFalse =>
              band.gaps.indirect_gap = GapValue(IndirectOf(n))

\* both cases were met: equal gaps reported as False, unequal ones as a pair
C32_Witness ==
    /\ GapsKnown
    /\ band.gaps.outcome = "returned"
    /\ band.stripes = <<Stripe(-2, -1), Stripe(1, 1)>>
    /\ band.gaps.indirect_gap = GapFalse
    /\ band.gaps.direct_gap = GapValue(2)

\* ------------------------------------------------------------------- C33
\* C33: the DOS clipping sets every negative entry to 0 and keeps every
\* other entry, in each spin channel; clipping twice gives what clipping
\* once gives; no negative DOS value is in the report
C33_ClippingIdempotent ==
    /\ dos.stage = "scale_up" =>
          /\ \A n \in DOMAIN dos.dos_up :
                dos.dos_up[n] = IF dos.raw_up[n] < 0 THEN 0 ELSE dos.raw_up[n]
          /\ Clipped(dos.dos_up) = dos.dos_up
    /\ dos.stage = "scale_down" =>
          /\ \A n \in DOMAIN dos.dos_down :
                dos.dos_down[n] = IF dos.raw_down[n] < 0 THEN 0 ELSE dos.raw_down[n]
          /\ Clipped(dos.dos_down) = dos.dos_down
    /\ dos.stage = "done" =>
          \A n \in DOMAIN dos.report : dos.report[n] >= 0

\* a DOS with a negative and a positive entry in both channels was
\* clipped, summed and exported
C33_Witness ==
    /\ dos.stage = "done"
    /\ dos.has_down
    /\ dos.raw_up = <<-1, 2>>
    /\ dos.raw_down = <<2, -1>>
    /\ dos.report = <<2 * Hartree, 2 * Hartree>>

\* ------------------------------------------------------------------- C34
\* the four calculations in the order of the claim
C34_Order == <<"optimise", "frequency", "elastic", "properties">>

\* C34: the old MPDSCrystalWorkchain submits geometry optimization,
\* phonons, elastic constants and properties in this order, each after the
\* one before it has ended, and when all four finish ok its results have
\* output_parameters, frequency_parameters, elastic_parameters, output_dos
\* and output_bands
C34_LegacyOrderAndOutputs ==
    /\ Len(legacy.submitted) <= 4
    /\ \A i \in DOMAIN legacy.submitted :
          /\ legacy.submitted[i] = C34_Order[i]
          /\ i < Len(legacy.submitted) =>
                legacy.state[legacy.submitted[i]] \in {"finished_ok", "failed"}
    /\ \A r \in LegacyRuns :
          legacy.state[r] # "none" => \E i \in DOMAIN legacy.submitted :
                                         legacy.submitted[i] = r
    /\ (legacy.pc = "finished" /\ \A r \in LegacyRuns : legacy.state[r] = "finished_ok") =>
          {"output_parameters", "frequency_parameters", "elastic_parameters",
           "output_dos", "output_bands"} \subseteq legacy.results

\* all four ran and finished ok and the results were retrieved
C34_Witness ==
    /\ legacy.pc = "finished"
    /\ legacy.submitted = C34_Order
    /\ \A r \in LegacyRuns : legacy.state[r] = "finished_ok"
    /\ "output_bands" \in legacy.results

\* ------------------------------------------------------------------- C35
\* the structure get_geometry returned
Returned == sel.structs[sel.median_idx]

\* the structures with the least number of atoms, and twice their median
\* cell, component by component
Smallest ==
    {i \in DOMAIN sel.structs :
        \A j \in DOMAIN sel.structs : sel.structs[i].atoms <= sel.structs[j].atoms}
MedianOfSmallest2 ==
    [a \in CellAxes |->
        LET below(x) == Cardinality({i \in Smallest : sel.structs[i].cell[a] < x})
            upto(x) == Cardinality({i \in Smallest : sel.structs[i].cell[a] <= x})
            at(k) == CHOOSE x \in 0..1 : below(x) < k /\ upto(x) >= k
            m == Cardinality(Smallest)
        IN  IF m % 2 = 1 THEN 2 * at((m + 1) \div 2)
            ELSE at(m \div 2) + at(m \div 2 + 1)]
FarFromMedian(cell) ==
    (2 * cell[1] - MedianOfSmallest2[1]) * (2 * cell[1] - MedianOfSmallest2[1])
    + (2 * cell[2] - MedianOfSmallest2[2]) * (2 * cell[2] - MedianOfSmallest2[2])

\* C35: the structure returned by get_geometry has the least number of
\* atoms of all structures of the answer, and of the structures with that
\* number its cell is the closest to their element-wise median cell
C35_MinimalMedianStructure ==
    sel.stage = "done" =>
        /\ \A i \in DOMAIN sel.structs : Returned.atoms <= sel.structs[i].atoms
        /\ \A i \in Smallest :
              FarFromMedian(Returned.cell) <= FarFromMedian(sel.structs[i].cell)

\* ------------------------------------------------------------------- C36
\* C36: MPDSFleurStructureWorkChain.get_geometry sends at most 5 requests;
\* after a 429 answer it waits and tries again while fewer than 5 attempts
\* were made, it returns ERROR_API_ERROR when the 5th attempt gets 429 and,
\* at once, on any other API error; the lines that use the answer run only
\* after a request that succeeded
C36_FiveRequests ==
    /\ fgeo.requests <= 5
    /\ fgeo.requests = fgeo.attempt
    /\ (fgeo.answer = "429" /\ fgeo.attempt < 5) =>
          (fgeo.stage \in {"asleep", "loop"} /\ fgeo.result = "pending")
    /\ (fgeo.answer = "429" /\ fgeo.attempt >= 5) =>
          (fgeo.stage = "done" /\ fgeo.result = "ERROR_API_ERROR")
    /\ fgeo.answer = "api_error" =>
          (fgeo.stage = "done" /\ fgeo.result = "ERROR_API_ERROR")
    /\ fgeo.result = "ERROR_API_ERROR" => fgeo.answer \in {"429", "api_error"}
    /\ fgeo.stage = "compile" => fgeo.answer = "structs"
    /\ fgeo.result \in {"structure", "ERROR_NO_HITS"} => fgeo.answer = "structs"
    /\ fgeo.result # "UnboundLocalError"

\* the 5th request was rate-limited as the four before it
C36_Witness ==
    /\ fgeo.stage = "done"
    /\ fgeo.requests = 5
    /\ fgeo.answer = "429"
    /\ fgeo.result = "ERROR_API_ERROR"

\* ------------------------------------------------------------ C37 .. C39
\* MPDSFleurWorkChain is over
FleurOver == fleur.pc \in {"finished", "excepted"}

\* C37: MPDSFleurWorkChain submits the phonon workchain only if
\* need_phonons and optimize_structure are both true and the optimization
\* finished ok; after a failed optimization no phonon workchain is
\* submitted and the workchain ends without an error exit code
C37_PhononsAfterGoodOptimization ==
    /\ fleur.phonons # "none" =>
          /\ fleur.config.need_phonons
          /\ fleur.config.optimize
          /\ fleur.optimization = "finished_ok"
    /\ fleur.optimization = "failed" => fleur.phonons = "none"
    /\ (fleur.optimization = "failed" /\ FleurOver) =>
          (fleur.pc = "finished" /\ fleur.exit_status = 0)

\* phonons were wanted, the optimization failed, the workchain ended
C37_Witness ==
    /\ fleur.pc = "finished"
    /\ fleur.need_phonons
    /\ fleur.optimize
    /\ fleur.optimization = "failed"
    /\ fleur.phonons = "none"

\* C38: when the optimization finishes ok the workchain publishes the
\* output 'optimized_structure', and when the phonon workchain finishes
\* ok it publishes 'phonon_results'
C38_OutputsPublished ==
    fleur.pc = "finished" =>
        /\ fleur.optimization = "finished_ok" =>
              "optimized_structure" \in fleur.outputs
        /\ fleur.phonons = "finished_ok" => "phonon_results" \in fleur.outputs

\* C39: get_optimizer returns an optimizer class for every pair of names:
\* the configured one when both are valid, BFGS when the optimizer or the
\* calculation type is not; it never raises
C39_OptimizerAlwaysReturned ==
    fleur.optimizer_wc # "unset" =>
        IF /\ fleur.optimizer_name \in {"Adam", "RMSprop", "BFGS", "CG"}
           /\ fleur.calculator_type \in {"scf", "relax"}
        THEN fleur.optimizer_wc = fleur.optimizer_name
        ELSE fleur.optimizer_wc = "BFGS"

\* ------------------------------------------------------------------- C40
\* C40: when run_forces ends with exit code 403 because the input of some
\* supercell failed validation, no FleurForcesWorkChain was submitted for
\* any supercell in that call
C40_NoForcesAfterValidationError ==
    (phonopy.stage = "returned" /\ phonopy.exit_status = ERROR_XML_VALIDATION_FAILED) =>
        phonopy.futures = {}

====
